---- MODULE Spec2Model ----
(***************************************************************************)
(* A model of aurum-db (src/src/aurum-db.ts): the ordered collection's     *)
(* promise lock chain and the observers of the ordered collection and of   *)
(* the index, over an asynchronous key-value engine.                       *)
(*                                                                         *)
(* JavaScript runs one synchronous segment at a time.  A segment ends at   *)
(* an await.  Awaiting a settled promise (or undefined) queues the         *)
(* continuation on the microtask queue (mq); awaiting a pending promise    *)
(* registers it on that promise (waitq), and resolving the promise moves   *)
(* its registrations to mq in registration order.  An engine callback runs *)
(* only when mq is empty.  An engine read takes its value when the engine  *)
(* serves it (io "pending" -> "ready") and hands it to JavaScript in a     *)
(* later callback; an engine write takes effect and fires its change event *)
(* in its callback, so events fire in the order the writes were applied.   *)
(***************************************************************************)
EXTENDS Integers, Sequences, FiniteSets, TLC

\* ---------------------------------------------------------------- bounds
MaxStackCalls == 4
MaxVal == 3
MaxBase == 1
MaxCalls == 3
MaxMixVal == 2
MaxSetIndex == 1
MaxIdxCalls == 2
MaxIdxVal == 2
MaxTokens == 1
MaxBatch == 2
MaxBatches == 1
MaxObsIndex == 1
MaxSliceLen == 2
MaxSliceCalls == 2
MaxRegCalls == 2
MaxDepth == 2
MaxItCalls == 3
MaxItKeys == 2
MaxAmount == 2

Vals == 1..MaxVal

VARIABLES
    store,          \* the ordered collection's partition: [meta, slots]
    lock,           \* this.lock: 0 (undefined) or the call whose promise it is
    calls,          \* the calls issued on the collection handle
    mq,             \* the microtask queue: calls with a continuation ready
    waitq,          \* <<call, lock>>: continuations registered on a pending lock
    totalObservers, \* this.totalObservers: the observe calls whose array is registered
    ads,            \* the ArrayDataSource of each observe call
    order,          \* the calls in the order they were issued
    base,           \* the partition when the handle was obtained
    ocKeyObservers, \* this.keyObservers of the collection: the observe calls registered
    ocDs,           \* the DataSource value of each observeAt / observeLength call
    alone           \* the observe calls no other call has overlapped

VARIABLES
    istore,          \* the index's partition: the stored keys and their values
    icalls,          \* the calls issued on the index handle
    itotalObservers, \* this.totalObservers of the index: observe calls, in order
    views,           \* the MapDataSource of each observeEntireIndex call
    keyObservers,    \* this.keyObservers of the index: key -> observe calls, in order
    dsVal,           \* the DataSource value of each observeKey call
    cancelled,       \* the cancellation tokens that were cancelled
    config,          \* config.autoDeleteOnSetUndefined
    nbatch,          \* batches written through the index's handle so far
    lastStep         \* what the last step delivered: a change event or an observer

VARIABLES
    phys,            \* the physical store of the database: key -> value
    rcalls,          \* the calls issued on database and index handles
    handles          \* the AurumDB / AurumDBIndex handles obtained: [p: prefix, d: depth]

VARIABLES
    cursor,          \* the engine cursor: keys left, ended, nexting, times released
    itcalls,         \* the calls issued on the AurumDBIterator
    current          \* this.current of the AurumDBIterator

itVars == <<cursor, itcalls, current>>
regVars == <<phys, rcalls, handles>>
idxVars == <<istore, icalls, itotalObservers, views, keyObservers, dsVal, cancelled,
             config, nbatch, lastStep>>
ocObsVars == <<ocKeyObservers, ocDs, alone>>
ocVars == <<store, lock, calls, mq, waitq, totalObservers, ads, order, base, ocObsVars>>
vars == <<ocVars, idxVars, regVars, itVars>>

\* No index handle is in use.
IdxUnused ==
    /\ istore = <<>> /\ icalls = <<>> /\ itotalObservers = <<>> /\ views = <<>>
    /\ keyObservers = <<>> /\ dsVal = <<>> /\ cancelled = <<>> /\ config = FALSE
    /\ nbatch = 0
    /\ lastStep = [type |-> "none"]

\* No database handle is in use.
RegUnused == phys = <<>> /\ rcalls = <<>> /\ handles = {}

\* No iterator is in use.
ItUnused == cursor = <<>> /\ itcalls = <<>> /\ current = <<>>

\* ------------------------------------------------------- the partition
\* An optional value is <<>> (absent: the engine's NotFound) or <<v>>.
None == <<>>
Some(v) == <<v>>

\* A cursor the engine just opened on the keys ks.
OpenCursor(ks) == [keys |-> ks, ended |-> FALSE, nexting |-> FALSE, released |-> 0]

\* iterator.end(cb) of the engine: the first call ends and releases the cursor, a later
\* call is refused.
CursorEnd(cur) ==
    IF cur.ended
    THEN [cur |-> cur, out |-> "refused"]
    ELSE [cur |-> [cur EXCEPT !.ended = TRUE, !.released = @ + 1], out |-> "run"]

\* The partition of a collection that holds the sequence s.
StoreOf(s) == [meta |-> Some(Len(s)), slots |-> [k \in 0..(Len(s) - 1) |-> s[k + 1]]]

\* db.get(key): the stored value or NotFound.
GetSlot(st, k) == IF k \in DOMAIN st.slots THEN Some(st.slots[k]) ELSE None

\* db.put(key, value) on a slot.
PutSlot(slots, k, v) == [x \in (DOMAIN slots) \cup {k} |-> IF x = k THEN v ELSE slots[x]]

\* db.del(key) on a slot.
DelSlot(slots, k) == [x \in (DOMAIN slots) \ {k} |-> slots[x]]

\* ---------------------------------------------------------------- calls
IdleCall ==
    [op |-> "none", items |-> <<>>, index |-> 0, pc |-> "idle", io |-> "none",
     rd |-> None, len |-> 0, i |-> 0, acc |-> <<>>, res |-> "none", ret |-> None,
     hasLen |-> FALSE, burst |-> FALSE]

CallIds == DOMAIN calls

\* A lock that is never waited for.
ResolvedNoWait(l) == TRUE

\* A promise stored in this.lock is resolved once its executor called resolve.
Resolved(l) == l = 0 \/ calls[l].pc = "done"

\* `await this.lock` by call c when this.lock is l.
MqAwait(q, c, l) == IF Resolved(l) THEN Append(q, c) ELSE q
WaitqAwait(w, c, l) == IF Resolved(l) THEN w ELSE Append(w, <<c, l>>)

\* resolve() of the lock promise of call c: its registered continuations, in order.
Woken(c) ==
    LET s == SelectSeq(waitq, LAMBDA e : e[2] = c)
    IN [k \in 1..Len(s) |-> s[k][1]]
StillWaiting(c) == SelectSeq(waitq, LAMBDA e : e[2] # c)

InFlight(c) == calls[c].pc \notin {"idle", "done", "dead"}
Quiescent == \A c \in CallIds : calls[c].pc \in {"idle", "done"}

\* The caller has not given up control since the calls issued so far: none of them
\* has run past its first await.
SameTick == \A d \in CallIds : calls[d].pc \in {"idle", "awaitLock"}

\* ------------------------------------------------------------ push, pop
\* Lines 489-490, 527-528: the caller invokes push/pop, which runs to `await this.lock`.
Issue(c, op, items, index) ==
    /\ c = Len(order) + 1
    /\ c \in CallIds
    /\ calls[c].pc = "idle"
    /\ calls' = [calls EXCEPT ![c] = [IdleCall EXCEPT !.op = op, !.items = items,
                                                      !.index = index, !.pc = "awaitLock",
                                                      !.burst = SameTick]]
    /\ order' = Append(order, c)
    /\ mq' = MqAwait(mq, c, lock)
    /\ waitq' = WaitqAwait(waitq, c, lock)
    /\ alone' = {o \in alone : calls[o].pc = "done"}
                    \cup (IF op \in {"observeAt", "observeLength", "observeEntireCollection",
                                    "observeLastNElements"}
                             /\ Quiescent
                          THEN {c} ELSE {})
    /\ UNCHANGED <<store, lock, totalObservers, ads, base, ocKeyObservers, ocDs, idxVars, regVars, itVars>>

PushArgs == {<<v>> : v \in Vals}

IssuePush(c) == \E items \in PushArgs : Issue(c, "push", items, 0)

IssuePop(c) == Issue(c, "pop", <<>>, 0)

\* Lines 491-492, 529-530: `this.lock = new Promise(async (resolve) => { const len =
\* await this.length(); ...`: the executor runs first and length() awaits the lock that
\* is still the previous one; then the new promise is stored in this.lock.
InstallLock(c) ==
    /\ mq # <<>> /\ Head(mq) = c
    /\ calls[c].pc = "awaitLock"
    /\ calls[c].op \in {"push", "pop"}
    /\ calls' = [calls EXCEPT ![c].pc = "lenLock"]
    /\ mq' = MqAwait(Tail(mq), c, lock)
    /\ waitq' = WaitqAwait(waitq, c, lock)
    /\ lock' = c
    /\ UNCHANGED <<store, totalObservers, ads, order, base, ocObsVars, idxVars, regVars, itVars>>

\* Lines 460-462: length() after `await this.lock`: db.get(META_KEY) is requested.
LengthGet(c) ==
    /\ mq # <<>> /\ Head(mq) = c
    /\ calls[c].pc = "lenLock"
    /\ calls' = [calls EXCEPT ![c].pc = "lenGet", ![c].io = "pending"]
    /\ mq' = Tail(mq)
    /\ UNCHANGED <<store, lock, waitq, totalObservers, ads, order, base, ocObsVars, idxVars, regVars, itVars>>

\* The engine serves a read: the value is taken now, the callback comes later.
ReadKey(c) ==
    IF calls[c].pc = "lenGet" THEN store.meta
    ELSE IF calls[c].pc = "popGet" THEN GetSlot(store, calls[c].len - 1)
    ELSE IF calls[c].pc = "obsGet"
    THEN (IF calls[c].op = "observeLength" THEN store.meta
          ELSE GetSlot(store, calls[c].index))
    ELSE GetSlot(store, calls[c].i)

EngineRead(c) ==
    /\ calls[c].pc \in {"lenGet", "popGet", "arrGet", "obsGet", "sliceGet", "lastGet"}
    /\ calls[c].io = "pending"
    /\ calls' = [calls EXCEPT ![c].io = "ready", ![c].rd = ReadKey(c)]
    /\ UNCHANGED <<store, lock, mq, waitq, totalObservers, ads, order, base, ocObsVars, idxVars, regVars, itVars>>

\* The observer of call o is in this.totalObservers.
Registered(o) == \E k \in 1..Len(totalObservers) : totalObservers[k] = o

AppendItems(items, a) == a \o items
PopLast(a) == IF a = <<>> THEN a ELSE SubSeq(a, 1, Len(a) - 1)

\* ------------------------------------------------- the keys of events
\* A key as the caller handed it to put/del/get: the string of a slot index (`${i}`,
\* index.toString()), the number of a slot index, or the string META_KEY. The engine
\* stores both forms of a slot index under the same key; a Map tells them apart.
StrKey(i) == [t |-> "string", i |-> i]
NumKey(i) == [t |-> "number", i |-> i]
LengthKey == [t |-> "string", i |-> -1]

\* Lines 409-415: the key observeLength and observeAt pass to observeKey.
ObservedKey(c) == IF calls[c].op = "observeLength" THEN LengthKey ELSE StrKey(calls[c].index)

\* The DataSource of call c is in this.keyObservers (under ObservedKey(c)).
Listening(c) == \E k \in 1..Len(ocKeyObservers) : ocKeyObservers[k] = c

\* Lines 401-407: onKeyChange(k, v) updates the DataSources stored under the key k.
OcOnKeyChange(d, k, v) ==
    [c \in DOMAIN d |-> IF Listening(c) /\ ObservedKey(c) = k THEN v ELSE d[c]]

\* Lines 393-399: onClear() updates every key observer to undefined.
OcOnClear(d) == [c \in DOMAIN d |-> IF Listening(c) THEN None ELSE d[c]]

\* Lines 365-378: one operation of a batch.
OcOnOp(d, op) ==
    IF op.type = "put" THEN OcOnKeyChange(d, op.key, op.value)
    ELSE IF op.type = "del" THEN OcOnKeyChange(d, op.key, None)
    ELSE OcOnClear(d)

\* A batch handler that looks at the first operation only.
OcOnBatchFirstOnly(d, ops) == IF ops = <<>> THEN d ELSE OcOnOp(d, ops[1])

\* Lines 363-380: the 'batch' handler walks the operations in order.
RECURSIVE OcOnBatch(_, _)
OcOnBatch(d, ops) == IF ops = <<>> THEN d ELSE OcOnBatch(OcOnOp(d, ops[1]), Tail(ops))

\* Lines 492-508: push after length(): a failed length() throws inside the executor (the
\* promise never settles); otherwise the observers are appended to and the batch of the
\* slots and the new length is written.
PushAfterLength(c) ==
    /\ mq = <<>>
    /\ calls[c].op = "push" /\ calls[c].pc = "lenGet" /\ calls[c].io = "ready"
    /\ IF calls[c].rd = None
       THEN /\ calls' = [calls EXCEPT ![c].pc = "dead", ![c].io = "none"]
            /\ UNCHANGED ads
       ELSE /\ calls' = [calls EXCEPT ![c].pc = "batchWrite", ![c].io = "pending",
                                      ![c].len = calls[c].rd[1], ![c].hasLen = TRUE]
            /\ ads' = [o \in DOMAIN ads |->
                         IF Registered(o) THEN AppendItems(calls[c].items, ads[o]) ELSE ads[o]]
    /\ UNCHANGED <<store, lock, mq, waitq, totalObservers, order, base, ocObsVars, idxVars, regVars, itVars>>

\* The slot keys and the length a push of n items writes when it read length len.
PushSlot(len, i) == len + i
PushLength(len, n) == len + n

\* A push that writes its slots and leaves the length for later.
PushSlotsOnly(st, len, items) ==
    [meta |-> st.meta,
     slots |-> [x \in (DOMAIN st.slots) \cup {PushSlot(len, i - 1) : i \in 1..Len(items)} |->
                  IF \E i \in 1..Len(items) : PushSlot(len, i - 1) = x
                  THEN items[(CHOOSE i \in 1..Len(items) : PushSlot(len, i - 1) = x)]
                  ELSE st.slots[x]]]

PushBatch(st, len, items) ==
    [meta |-> Some(PushLength(len, Len(items))),
     slots |-> [x \in (DOMAIN st.slots) \cup {PushSlot(len, i - 1) : i \in 1..Len(items)} |->
                  IF \E i \in 1..Len(items) : PushSlot(len, i - 1) = x
                  THEN items[(CHOOSE i \in 1..Len(items) : PushSlot(len, i - 1) = x)]
                  ELSE st.slots[x]]]

\* Lines 494-503: the operations of the batch, as the 'batch' event carries them.
PushOps(len, items) ==
    [i \in 1..Len(items) |->
        [type |-> "put", key |-> StrKey(PushSlot(len, i - 1)), value |-> Some(items[i])]]
    \o <<[type |-> "put", key |-> LengthKey, value |-> Some(PushLength(len, Len(items)))]>>

\* Lines 508-509: batch.write() completes, the 'batch' event is emitted and resolve() is
\* called.
PushWritten(c) ==
    /\ mq = <<>>
    /\ calls[c].op = "push" /\ calls[c].pc = "batchWrite"
    /\ store' = PushBatch(store, calls[c].len, calls[c].items)
    /\ ocDs' = OcOnBatch(ocDs, PushOps(calls[c].len, calls[c].items))
    /\ calls' = [calls EXCEPT ![c].pc = "done", ![c].io = "none", ![c].res = "ok"]
    /\ mq' = Woken(c)
    /\ waitq' = StillWaiting(c)
    /\ UNCHANGED <<lock, totalObservers, ads, order, base, ocKeyObservers, alone, idxVars, regVars, itVars>>

\* Lines 530-535: pop after length(): db.get(len - 1) is requested.
PopAfterLength(c) ==
    /\ mq = <<>>
    /\ calls[c].op = "pop" /\ calls[c].pc = "lenGet" /\ calls[c].io = "ready"
    /\ IF calls[c].rd = None
       THEN calls' = [calls EXCEPT ![c].pc = "dead", ![c].io = "none"]
       ELSE calls' = [calls EXCEPT ![c].pc = "popGet", ![c].io = "pending",
                                   ![c].len = calls[c].rd[1], ![c].hasLen = TRUE,
                                   ![c].rd = None]
    /\ UNCHANGED <<store, lock, mq, waitq, totalObservers, ads, order, base, ocObsVars, idxVars, regVars, itVars>>

\* Lines 533-544: pop after db.get(len - 1): NotFound throws inside the executor;
\* otherwise the observers are popped and the batch is written.
PopAfterGet(c) ==
    /\ mq = <<>>
    /\ calls[c].op = "pop" /\ calls[c].pc = "popGet" /\ calls[c].io = "ready"
    /\ IF calls[c].rd = None
       THEN /\ calls' = [calls EXCEPT ![c].pc = "dead", ![c].io = "none"]
            /\ UNCHANGED ads
       ELSE /\ calls' = [calls EXCEPT ![c].pc = "batchWrite", ![c].io = "pending",
                                      ![c].ret = calls[c].rd]
            /\ ads' = [o \in DOMAIN ads |-> IF Registered(o) THEN PopLast(ads[o]) ELSE ads[o]]
    /\ UNCHANGED <<store, lock, mq, waitq, totalObservers, order, base, ocObsVars, idxVars, regVars, itVars>>

\* A pop that forgets to decrement the length.
PopLengthSame(len) == len

PopLength(len) == len - 1

PopBatch(st, len) == [meta |-> Some(PopLength(len)), slots |-> DelSlot(st.slots, len - 1)]

\* Lines 537-540: the operations of the batch, as the 'batch' event carries them.
PopOps(len) ==
    <<[type |-> "put", key |-> LengthKey, value |-> Some(PopLength(len))],
      [type |-> "del", key |-> NumKey(len - 1)]>>

\* Lines 544-545: batch.write() completes, the 'batch' event is emitted and resolve(v) is
\* called.
PopWritten(c) ==
    /\ mq = <<>>
    /\ calls[c].op = "pop" /\ calls[c].pc = "batchWrite"
    /\ store' = PopBatch(store, calls[c].len)
    /\ ocDs' = OcOnBatch(ocDs, PopOps(calls[c].len))
    /\ calls' = [calls EXCEPT ![c].pc = "done", ![c].io = "none", ![c].res = "ok"]
    /\ mq' = Woken(c)
    /\ waitq' = StillWaiting(c)
    /\ UNCHANGED <<lock, totalObservers, ads, order, base, ocKeyObservers, alone, idxVars, regVars, itVars>>

\* ------------------------------------------------- push and pop only
StackCalls == 1..MaxStackCalls

InitStack ==
    /\ \E s \in UNION {[1..n -> Vals] : n \in 0..MaxBase} : store = StoreOf(s)
    /\ base = store
    /\ lock = 0
    /\ calls = [c \in StackCalls |-> IdleCall]
    /\ mq = <<>>
    /\ waitq = <<>>
    /\ totalObservers = <<>>
    /\ ads = [c \in StackCalls |-> <<>>]
    /\ order = <<>>
    /\ ocKeyObservers = <<>>
    /\ ocDs = [c \in DOMAIN calls |-> None]
    /\ alone = {}
    /\ IdxUnused
    /\ RegUnused
    /\ ItUnused

NextStack ==
    \/ \E c \in StackCalls : IssuePush(c)
    \/ \E c \in StackCalls : IssuePop(c)
    \/ \E c \in StackCalls : InstallLock(c)
    \/ \E c \in StackCalls : LengthGet(c)
    \/ \E c \in StackCalls : EngineRead(c)
    \/ \E c \in StackCalls : PushAfterLength(c)
    \/ \E c \in StackCalls : PushWritten(c)
    \/ \E c \in StackCalls : PopAfterLength(c)
    \/ \E c \in StackCalls : PopAfterGet(c)
    \/ \E c \in StackCalls : PopWritten(c)

SpecStack == InitStack /\ [][NextStack]_vars

\* ------------------------------------------------- push and pop on a failing engine
\* The engine fails a read of a push or pop (lines 462, 533): the rejection arrives in a
\* later callback.
EngineReadFails(c) ==
    /\ calls[c].op \in {"push", "pop"}
    /\ calls[c].pc \in {"lenGet", "popGet"}
    /\ calls[c].io = "pending"
    /\ calls' = [calls EXCEPT ![c].io = "failed"]
    /\ UNCHANGED <<store, lock, mq, waitq, totalObservers, ads, order, base, ocObsVars, idxVars, regVars, itVars>>

\* Lines 492, 533: the awaited read rejects, which throws inside the async executor of
\* new Promise: resolve is never called and nothing rejects the promise.
ReadRejected(c) ==
    /\ mq = <<>>
    /\ calls[c].pc \in {"lenGet", "popGet"} /\ calls[c].io = "failed"
    /\ calls' = [calls EXCEPT ![c].pc = "dead"]
    /\ UNCHANGED <<store, lock, mq, waitq, totalObservers, ads, order, base, ocObsVars, idxVars, regVars, itVars>>

\* Lines 508, 544: batch.write() rejects: nothing is written, no event is emitted, and
\* the throw inside the async executor leaves the promise unsettled.
BatchWriteFails(c) ==
    /\ mq = <<>>
    /\ calls[c].op \in {"push", "pop"} /\ calls[c].pc = "batchWrite"
    /\ calls' = [calls EXCEPT ![c].pc = "dead", ![c].io = "failed"]
    /\ UNCHANGED <<store, lock, mq, waitq, totalObservers, ads, order, base, ocObsVars, idxVars, regVars, itVars>>

NextFaults ==
    \/ \E c \in StackCalls : IssuePush(c)
    \/ \E c \in StackCalls : IssuePop(c)
    \/ \E c \in StackCalls : InstallLock(c)
    \/ \E c \in StackCalls : LengthGet(c)
    \/ \E c \in StackCalls : EngineRead(c)
    \/ \E c \in StackCalls : EngineReadFails(c)
    \/ \E c \in StackCalls : ReadRejected(c)
    \/ \E c \in StackCalls : PushAfterLength(c)
    \/ \E c \in StackCalls : PushWritten(c)
    \/ \E c \in StackCalls : PopAfterLength(c)
    \/ \E c \in StackCalls : PopAfterGet(c)
    \/ \E c \in StackCalls : PopWritten(c)
    \/ \E c \in StackCalls : BatchWriteFails(c)

SpecFaults == InitStack /\ [][NextFaults]_vars

\* ------------------------------------------------------------ set, clear
MixVals == 1..MaxMixVal
SetIndices == (-1)..MaxSetIndex

IssueMixPush(c) == \E v \in MixVals : Issue(c, "push", <<v>>, 0)

\* Line 474-475: set(index, item) runs to `await this.lock`.
IssueSet(c) == \E i \in SetIndices, v \in MixVals : Issue(c, "set", <<v>>, i)

\* Line 550-551: clear() runs to `await this.lock`.
IssueClear(c) == Issue(c, "clear", <<>>, 0)

\* Lines 476, 515-516, 560-562: after `await this.lock` set, slice and toArray call
\* length(), which awaits this.lock again; none of them stores a promise in this.lock.
CallLength(c) ==
    /\ mq # <<>> /\ Head(mq) = c
    /\ \/ calls[c].pc = "awaitLock" /\ calls[c].op \in {"set", "toArray", "slice", "observeLastNElements"}
       \/ calls[c].pc = "toArrLock"
    /\ calls' = [calls EXCEPT ![c].pc = "lenLock"]
    /\ mq' = MqAwait(Tail(mq), c, lock)
    /\ waitq' = WaitqAwait(waitq, c, lock)
    /\ UNCHANGED <<store, lock, totalObservers, ads, order, base, ocObsVars, idxVars, regVars, itVars>>

\* The hole a JavaScript array holds where nothing was assigned.
Hole == 0

\* ArrayDataSource.set(index, item) on a JavaScript array: an index past the end pads
\* with holes, a negative index is no element of the array.
ArraySet(a, i, v) ==
    IF i < 0 THEN a
    ELSE [k \in 1..(IF i + 1 > Len(a) THEN i + 1 ELSE Len(a)) |->
            IF k = i + 1 THEN v ELSE IF k <= Len(a) THEN a[k] ELSE Hole]

\* Line 477: the bound check of set.
SetOutOfBounds(index, len) == index > len

\* Lines 476-486: set after length(): out of bounds (or a failed length()) rejects;
\* otherwise the observers are set and db.put(index, item) is requested.
SetAfterLength(c) ==
    /\ mq = <<>>
    /\ calls[c].op = "set" /\ calls[c].pc = "lenGet" /\ calls[c].io = "ready"
    /\ IF calls[c].rd = None
       THEN /\ calls' = [calls EXCEPT ![c].pc = "done", ![c].io = "none", ![c].res = "err"]
            /\ UNCHANGED ads
       ELSE IF SetOutOfBounds(calls[c].index, calls[c].rd[1])
       THEN /\ calls' = [calls EXCEPT ![c].pc = "done", ![c].io = "none", ![c].res = "err",
                                      ![c].len = calls[c].rd[1], ![c].hasLen = TRUE]
            /\ UNCHANGED ads
       ELSE /\ calls' = [calls EXCEPT ![c].pc = "setPut", ![c].io = "pending",
                                      ![c].len = calls[c].rd[1], ![c].hasLen = TRUE]
            /\ ads' = [o \in DOMAIN ads |->
                         IF Registered(o)
                         THEN ArraySet(ads[o], calls[c].index, calls[c].items[1])
                         ELSE ads[o]]
    /\ UNCHANGED <<store, lock, mq, waitq, totalObservers, order, base, ocObsVars, idxVars, regVars, itVars>>

\* Line 484: db.put(index, item) completes, the 'put' event carries the numeric index,
\* and set resolves.
SetWritten(c) ==
    /\ mq = <<>>
    /\ calls[c].op = "set" /\ calls[c].pc = "setPut"
    /\ store' = [store EXCEPT !.slots = PutSlot(store.slots, calls[c].index, calls[c].items[1])]
    /\ ocDs' = OcOnKeyChange(ocDs, NumKey(calls[c].index), Some(calls[c].items[1]))
    /\ calls' = [calls EXCEPT ![c].pc = "done", ![c].io = "none", ![c].res = "ok"]
    /\ UNCHANGED <<lock, mq, waitq, totalObservers, ads, order, base, ocKeyObservers, alone,
                   idxVars, regVars, itVars>>

\* Line 552: clear after `await this.lock`: db.clear() is requested.
ClearRequest(c) ==
    /\ mq # <<>> /\ Head(mq) = c
    /\ calls[c].pc = "awaitLock" /\ calls[c].op = "clear"
    /\ calls' = [calls EXCEPT ![c].pc = "clearReq", ![c].io = "pending"]
    /\ mq' = Tail(mq)
    /\ UNCHANGED <<store, lock, waitq, totalObservers, ads, order, base, ocObsVars, idxVars, regVars, itVars>>

\* Lines 552-556: db.clear() completes: the partition, length record included, is empty;
\* the observers are cleared; db.put(META_KEY, 0) is requested and not awaited, and
\* clear resolves.
ClearCleared(c) ==
    /\ mq = <<>>
    /\ calls[c].op = "clear" /\ calls[c].pc = "clearReq"
    /\ store' = [meta |-> None, slots |-> <<>>]
    /\ ads' = [o \in DOMAIN ads |-> IF Registered(o) THEN <<>> ELSE ads[o]]
    /\ ocDs' = OcOnClear(ocDs)
    /\ calls' = [calls EXCEPT ![c].pc = "clearPut", ![c].res = "ok"]
    /\ UNCHANGED <<lock, mq, waitq, totalObservers, order, base, ocKeyObservers, alone,
                   idxVars, regVars, itVars>>

\* Line 556: the put of length 0 completes.
ClearMetaWritten(c) ==
    /\ mq = <<>>
    /\ calls[c].op = "clear" /\ calls[c].pc = "clearPut"
    /\ store' = [store EXCEPT !.meta = Some(0)]
    /\ ocDs' = OcOnKeyChange(ocDs, LengthKey, Some(0))
    /\ calls' = [calls EXCEPT ![c].pc = "done", ![c].io = "none"]
    /\ UNCHANGED <<lock, mq, waitq, totalObservers, ads, order, base, ocKeyObservers, alone,
                   idxVars, regVars, itVars>>

\* ------------------------------------- the mutating calls of one handle
InitOC ==
    /\ \E s \in UNION {[1..n -> MixVals] : n \in 0..MaxBase} : store = StoreOf(s)
    /\ base = store
    /\ lock = 0
    /\ calls = [c \in 1..MaxCalls |-> IdleCall]
    /\ mq = <<>>
    /\ waitq = <<>>
    /\ totalObservers = <<>>
    /\ ads = [c \in 1..MaxCalls |-> <<>>]
    /\ order = <<>>
    /\ ocKeyObservers = <<>>
    /\ ocDs = [c \in DOMAIN calls |-> None]
    /\ alone = {}
    /\ IdxUnused
    /\ RegUnused
    /\ ItUnused

OCCalls == 1..MaxCalls

NextOC ==
    \/ \E c \in OCCalls : IssueMixPush(c)
    \/ \E c \in OCCalls : IssuePop(c)
    \/ \E c \in OCCalls : IssueSet(c)
    \/ \E c \in OCCalls : IssueClear(c)
    \/ \E c \in OCCalls : InstallLock(c)
    \/ \E c \in OCCalls : CallLength(c)
    \/ \E c \in OCCalls : ClearRequest(c)
    \/ \E c \in OCCalls : LengthGet(c)
    \/ \E c \in OCCalls : EngineRead(c)
    \/ \E c \in OCCalls : PushAfterLength(c)
    \/ \E c \in OCCalls : PushWritten(c)
    \/ \E c \in OCCalls : PopAfterLength(c)
    \/ \E c \in OCCalls : PopAfterGet(c)
    \/ \E c \in OCCalls : PopWritten(c)
    \/ \E c \in OCCalls : SetAfterLength(c)
    \/ \E c \in OCCalls : SetWritten(c)
    \/ \E c \in OCCalls : ClearCleared(c)
    \/ \E c \in OCCalls : ClearMetaWritten(c)

SpecOC == InitOC /\ [][NextOC]_vars

\* ------------------------------------------- observeEntireCollection
\* Lines 445-446: observeEntireCollection(token) runs to `await this.lock`.
IssueObserve(c) == Issue(c, "observeEntireCollection", <<>>, 0)

\* Lines 447, 559-560: after `await this.lock` observeEntireCollection calls toArray(),
\* which awaits this.lock itself.
ObserveCallsToArray(c) ==
    /\ mq # <<>> /\ Head(mq) = c
    /\ calls[c].pc = "awaitLock" /\ calls[c].op = "observeEntireCollection"
    /\ calls' = [calls EXCEPT ![c].pc = "toArrLock"]
    /\ mq' = MqAwait(Tail(mq), c, lock)
    /\ waitq' = WaitqAwait(waitq, c, lock)
    /\ UNCHANGED <<store, lock, totalObservers, ads, order, base, ocObsVars, idxVars, regVars, itVars>>

\* Lines 447-457 and the end of toArray (567): the array read becomes the
\* ArrayDataSource, which is pushed on this.totalObservers, and the call resolves.
ArrayRead(c, items) ==
    /\ calls' = [calls EXCEPT ![c].pc = "done", ![c].io = "none", ![c].res = "ok",
                              ![c].acc = items]
    /\ IF calls[c].op = "observeEntireCollection"
       THEN /\ ads' = [ads EXCEPT ![c] = items]
            /\ totalObservers' = Append(totalObservers, c)
       ELSE UNCHANGED <<ads, totalObservers>>

ArrayFailed(c) ==
    /\ calls' = [calls EXCEPT ![c].pc = "done", ![c].io = "none", ![c].res = "err"]
    /\ UNCHANGED <<ads, totalObservers>>

\* Lines 562-563: toArray after length(): the loop over i < len starts with db.get(0).
ArrayAfterLength(c) ==
    /\ mq = <<>>
    /\ calls[c].op \in {"toArray", "observeEntireCollection"}
    /\ calls[c].pc = "lenGet" /\ calls[c].io = "ready"
    /\ IF calls[c].rd = None THEN ArrayFailed(c)
       ELSE IF calls[c].rd[1] <= 0 THEN ArrayRead(c, <<>>)
       ELSE /\ calls' = [calls EXCEPT ![c].pc = "arrGet", ![c].io = "pending",
                                      ![c].len = calls[c].rd[1], ![c].hasLen = TRUE,
                                      ![c].i = 0, ![c].rd = None]
            /\ UNCHANGED <<ads, totalObservers>>
    /\ UNCHANGED <<store, lock, mq, waitq, order, base, ocObsVars, idxVars, regVars, itVars>>

\* Lines 563-565: db.get(i) returned: the item is kept and the next slot is requested.
ArrayAfterGet(c) ==
    /\ mq = <<>>
    /\ calls[c].pc = "arrGet" /\ calls[c].io = "ready"
    /\ IF calls[c].rd = None THEN ArrayFailed(c)
       ELSE IF calls[c].i + 1 < calls[c].len
       THEN /\ calls' = [calls EXCEPT ![c].io = "pending", ![c].i = calls[c].i + 1,
                                      ![c].acc = Append(calls[c].acc, calls[c].rd[1]),
                                      ![c].rd = None]
            /\ UNCHANGED <<ads, totalObservers>>
       ELSE ArrayRead(c, Append(calls[c].acc, calls[c].rd[1]))
    /\ UNCHANGED <<store, lock, mq, waitq, order, base, ocObsVars, idxVars, regVars, itVars>>

NextObserve ==
    \/ \E c \in OCCalls : IssueObserve(c)
    \/ \E c \in OCCalls : IssueMixPush(c)
    \/ \E c \in OCCalls : IssuePop(c)
    \/ \E c \in OCCalls : IssueSet(c)
    \/ \E c \in OCCalls : InstallLock(c)
    \/ \E c \in OCCalls : CallLength(c)
    \/ \E c \in OCCalls : ObserveCallsToArray(c)
    \/ \E c \in OCCalls : LengthGet(c)
    \/ \E c \in OCCalls : EngineRead(c)
    \/ \E c \in OCCalls : PushAfterLength(c)
    \/ \E c \in OCCalls : PushWritten(c)
    \/ \E c \in OCCalls : PopAfterLength(c)
    \/ \E c \in OCCalls : PopAfterGet(c)
    \/ \E c \in OCCalls : PopWritten(c)
    \/ \E c \in OCCalls : SetAfterLength(c)
    \/ \E c \in OCCalls : SetWritten(c)
    \/ \E c \in OCCalls : ArrayAfterLength(c)
    \/ \E c \in OCCalls : ArrayAfterGet(c)

SpecObserve == InitOC /\ [][NextObserve]_vars

\* ------------------------------- calls awaited one after the other
\* The promise of call d is settled (or d was not issued): a caller that awaits each
\* call before the next one issues a call only when this holds of all of them.
Settled(d) == calls[d].pc = "idle" \/ calls[d].res # "none"
AllSettled == \A d \in CallIds : Settled(d)

AwaitedObserve(c) == AllSettled /\ IssueObserve(c)
AwaitedPush(c) == AllSettled /\ IssueMixPush(c)
AwaitedPop(c) == AllSettled /\ IssuePop(c)
AwaitedSet(c) == AllSettled /\ IssueSet(c)
AwaitedClear(c) == AllSettled /\ IssueClear(c)

NextMirror ==
    \/ \E c \in OCCalls : AwaitedObserve(c)
    \/ \E c \in OCCalls : AwaitedPush(c)
    \/ \E c \in OCCalls : AwaitedPop(c)
    \/ \E c \in OCCalls : AwaitedSet(c)
    \/ \E c \in OCCalls : AwaitedClear(c)
    \/ \E c \in OCCalls : InstallLock(c)
    \/ \E c \in OCCalls : CallLength(c)
    \/ \E c \in OCCalls : ObserveCallsToArray(c)
    \/ \E c \in OCCalls : ClearRequest(c)
    \/ \E c \in OCCalls : LengthGet(c)
    \/ \E c \in OCCalls : EngineRead(c)
    \/ \E c \in OCCalls : PushAfterLength(c)
    \/ \E c \in OCCalls : PushWritten(c)
    \/ \E c \in OCCalls : PopAfterLength(c)
    \/ \E c \in OCCalls : PopAfterGet(c)
    \/ \E c \in OCCalls : PopWritten(c)
    \/ \E c \in OCCalls : SetAfterLength(c)
    \/ \E c \in OCCalls : SetWritten(c)
    \/ \E c \in OCCalls : ClearCleared(c)
    \/ \E c \in OCCalls : ClearMetaWritten(c)
    \/ \E c \in OCCalls : ArrayAfterLength(c)
    \/ \E c \in OCCalls : ArrayAfterGet(c)

SpecMirror == InitOC /\ [][NextMirror]_vars

\* ------------------------------------- the lock chain under fair scheduling
NextChain ==
    \/ \E c \in OCCalls : IssueMixPush(c)
    \/ \E c \in OCCalls : IssuePop(c)
    \/ \E c \in OCCalls : IssueSet(c)
    \/ \E c \in OCCalls : InstallLock(c)
    \/ \E c \in OCCalls : CallLength(c)
    \/ \E c \in OCCalls : LengthGet(c)
    \/ \E c \in OCCalls : EngineRead(c)
    \/ \E c \in OCCalls : EngineReadFails(c)
    \/ \E c \in OCCalls : ReadRejected(c)
    \/ \E c \in OCCalls : PushAfterLength(c)
    \/ \E c \in OCCalls : PushWritten(c)
    \/ \E c \in OCCalls : PopAfterLength(c)
    \/ \E c \in OCCalls : PopAfterGet(c)
    \/ \E c \in OCCalls : PopWritten(c)
    \/ \E c \in OCCalls : BatchWriteFails(c)
    \/ \E c \in OCCalls : SetAfterLength(c)
    \/ \E c \in OCCalls : SetWritten(c)

\* What the event loop and the engine do for the call c without the caller: a ready
\* continuation runs, a requested engine operation returns or fails, its callback runs.
ChainProgress(c) ==
    \/ InstallLock(c)
    \/ CallLength(c)
    \/ LengthGet(c)
    \/ EngineRead(c)
    \/ EngineReadFails(c)
    \/ ReadRejected(c)
    \/ PushAfterLength(c)
    \/ PushWritten(c)
    \/ PopAfterLength(c)
    \/ PopAfterGet(c)
    \/ PopWritten(c)
    \/ BatchWriteFails(c)
    \/ SetAfterLength(c)
    \/ SetWritten(c)

\* The microtask queue is drained and every engine operation eventually returns or
\* fails; the caller is free to issue no further call.
SpecChain == InitOC /\ [][NextChain]_vars /\ \A c \in OCCalls : WF_vars(ChainProgress(c))

\* ------------------------------------------------------------------- length
\* Lines 460-461: the caller invokes length(), which runs to `await this.lock`.
IssueLength(c) == Issue(c, "length", <<>>, 0)

\* Lines 461-462: length() called by the user, after `await this.lock`: db.get(META_KEY)
\* is requested.
LengthAfterLock(c) ==
    /\ mq # <<>> /\ Head(mq) = c
    /\ calls[c].pc = "awaitLock" /\ calls[c].op = "length"
    /\ calls' = [calls EXCEPT ![c].pc = "lenGet", ![c].io = "pending"]
    /\ mq' = Tail(mq)
    /\ UNCHANGED <<store, lock, waitq, totalObservers, ads, order, base, ocObsVars, idxVars, regVars, itVars>>

\* Line 462: db.get(META_KEY) returned to the caller of length(); NotFound rejects.
LengthReturned(c) ==
    /\ mq = <<>>
    /\ calls[c].op = "length" /\ calls[c].pc = "lenGet" /\ calls[c].io = "ready"
    /\ calls' = [calls EXCEPT ![c].pc = "done", ![c].io = "none", ![c].ret = calls[c].rd,
                              ![c].res = IF calls[c].rd = None THEN "err" ELSE "ok"]
    /\ UNCHANGED <<store, lock, mq, waitq, totalObservers, ads, order, base, ocObsVars, idxVars, regVars, itVars>>

NextLength ==
    \/ \E c \in OCCalls : IssueMixPush(c)
    \/ \E c \in OCCalls : IssuePop(c)
    \/ \E c \in OCCalls : IssueLength(c)
    \/ \E c \in OCCalls : InstallLock(c)
    \/ \E c \in OCCalls : LengthAfterLock(c)
    \/ \E c \in OCCalls : LengthGet(c)
    \/ \E c \in OCCalls : EngineRead(c)
    \/ \E c \in OCCalls : LengthReturned(c)
    \/ \E c \in OCCalls : PushAfterLength(c)
    \/ \E c \in OCCalls : PushWritten(c)
    \/ \E c \in OCCalls : PopAfterLength(c)
    \/ \E c \in OCCalls : PopAfterGet(c)
    \/ \E c \in OCCalls : PopWritten(c)

SpecLength == InitOC /\ [][NextLength]_vars

\* ------------------------------------------- observeAt, observeLength
ObsIndices == 0..MaxObsIndex
ManyArgs == UNION {[1..n -> MixVals] : n \in 1..2}

\* Line 489: push(...items) with one or more values.
IssuePushMany(c) == \E items \in ManyArgs : Issue(c, "push", items, 0)

\* A set inside the collection the handle was obtained with.
IssueSetInside(c) ==
    \E i \in 0..(base.meta[1] - 1), v \in MixVals : Issue(c, "set", <<v>>, i)

\* Lines 413-418: observeAt(index, token) runs to `await this.lock` of observeKey.
IssueObserveAt(c) == \E i \in ObsIndices : Issue(c, "observeAt", <<>>, i)

\* Lines 409-411, 417-418: observeLength(token) runs to `await this.lock` of observeKey.
IssueObserveLength(c) == Issue(c, "observeLength", <<>>, 0)

\* Lines 419-422: observeKey after `await this.lock`: db.get(key) is requested.
ObserveKeyGet(c) ==
    /\ mq # <<>> /\ Head(mq) = c
    /\ calls[c].pc = "awaitLock" /\ calls[c].op \in {"observeAt", "observeLength"}
    /\ calls' = [calls EXCEPT ![c].pc = "obsGet", ![c].io = "pending"]
    /\ mq' = Tail(mq)
    /\ UNCHANGED <<store, lock, waitq, totalObservers, ads, order, base, ocObsVars, idxVars, regVars, itVars>>

\* Lines 422-439: db.get(key) returned: the DataSource takes the value (NotFound is
\* caught and leaves it undefined), is pushed on this.keyObservers, and the call resolves.
ObserveKeyRegister(c) ==
    /\ mq = <<>>
    /\ calls[c].pc = "obsGet" /\ calls[c].io = "ready"
    /\ ocDs' = [ocDs EXCEPT ![c] = calls[c].rd]
    /\ ocKeyObservers' = Append(ocKeyObservers, c)
    /\ calls' = [calls EXCEPT ![c].pc = "done", ![c].io = "none", ![c].res = "ok"]
    /\ UNCHANGED <<store, lock, mq, waitq, totalObservers, ads, order, base, alone, idxVars, regVars, itVars>>

InitSlots ==
    /\ \E s \in UNION {[1..n -> MixVals] : n \in 1..(MaxObsIndex + 1)} : store = StoreOf(s)
    /\ base = store
    /\ lock = 0
    /\ calls = [c \in 1..MaxCalls |-> IdleCall]
    /\ mq = <<>>
    /\ waitq = <<>>
    /\ totalObservers = <<>>
    /\ ads = [c \in 1..MaxCalls |-> <<>>]
    /\ order = <<>>
    /\ ocKeyObservers = <<>>
    /\ ocDs = [c \in DOMAIN calls |-> None]
    /\ alone = {}
    /\ IdxUnused
    /\ RegUnused
    /\ ItUnused

NextSlots ==
    \/ \E c \in OCCalls : IssueObserveAt(c)
    \/ \E c \in OCCalls : IssueObserveLength(c)
    \/ \E c \in OCCalls : IssuePushMany(c)
    \/ \E c \in OCCalls : IssuePop(c)
    \/ \E c \in OCCalls : IssueSetInside(c)
    \/ \E c \in OCCalls : InstallLock(c)
    \/ \E c \in OCCalls : CallLength(c)
    \/ \E c \in OCCalls : ObserveKeyGet(c)
    \/ \E c \in OCCalls : LengthGet(c)
    \/ \E c \in OCCalls : EngineRead(c)
    \/ \E c \in OCCalls : ObserveKeyRegister(c)
    \/ \E c \in OCCalls : PushAfterLength(c)
    \/ \E c \in OCCalls : PushWritten(c)
    \/ \E c \in OCCalls : PopAfterLength(c)
    \/ \E c \in OCCalls : PopAfterGet(c)
    \/ \E c \in OCCalls : PopWritten(c)
    \/ \E c \in OCCalls : SetAfterLength(c)
    \/ \E c \in OCCalls : SetWritten(c)

SpecSlots == InitSlots /\ [][NextSlots]_vars

\* ---------------------------------------------------------------- slice
SliceBounds == (-1)..(MaxSliceLen + 1)
SliceCalls == 1..MaxSliceCalls

\* Lines 514-515: slice(startIndex, endIndex) runs to `await this.lock`; the call record
\* keeps startIndex in index and endIndex in items.
IssueSlice(c) == \E a, b \in SliceBounds : Issue(c, "slice", <<b>>, a)

StartIndex(c) == calls[c].index
EndIndex(c) == calls[c].items[1]

\* A bound check that lets a negative endIndex pass.
SliceOutOfBoundsStartOnly(startIndex, endIndex, len) ==
    startIndex > len \/ startIndex < 0 \/ endIndex > len

\* Line 517: the bound check of slice.
SliceOutOfBounds(startIndex, endIndex, len) ==
    startIndex > len \/ startIndex < 0 \/ endIndex > len \/ endIndex < 0

\* Lines 516-524: slice after length(): out of bounds (or a failed length()) rejects;
\* otherwise the loop over startIndex <= i < endIndex starts with db.get(startIndex), or
\* returns the empty array when it has no round.
SliceAfterLength(c) ==
    /\ mq = <<>>
    /\ calls[c].op = "slice" /\ calls[c].pc = "lenGet" /\ calls[c].io = "ready"
    /\ IF calls[c].rd = None
       THEN calls' = [calls EXCEPT ![c].pc = "done", ![c].io = "none", ![c].res = "err"]
       ELSE IF SliceOutOfBounds(StartIndex(c), EndIndex(c), calls[c].rd[1])
       THEN calls' = [calls EXCEPT ![c].pc = "done", ![c].io = "none", ![c].res = "err",
                                   ![c].len = calls[c].rd[1], ![c].hasLen = TRUE]
       ELSE IF StartIndex(c) < EndIndex(c)
       THEN calls' = [calls EXCEPT ![c].pc = "sliceGet", ![c].io = "pending",
                                   ![c].len = calls[c].rd[1], ![c].hasLen = TRUE,
                                   ![c].i = StartIndex(c), ![c].rd = None]
       ELSE calls' = [calls EXCEPT ![c].pc = "done", ![c].io = "none", ![c].res = "ok",
                                   ![c].len = calls[c].rd[1], ![c].hasLen = TRUE]
    /\ UNCHANGED <<store, lock, mq, waitq, totalObservers, ads, order, base, ocObsVars, idxVars, regVars, itVars>>

\* Lines 521-524: db.get(i) returned: the item is kept and the next slot is requested, or
\* the items are returned; NotFound rejects.
SliceAfterGet(c) ==
    /\ mq = <<>>
    /\ calls[c].op = "slice" /\ calls[c].pc = "sliceGet" /\ calls[c].io = "ready"
    /\ IF calls[c].rd = None
       THEN calls' = [calls EXCEPT ![c].pc = "done", ![c].io = "none", ![c].res = "err"]
       ELSE IF calls[c].i + 1 < EndIndex(c)
       THEN calls' = [calls EXCEPT ![c].io = "pending", ![c].i = calls[c].i + 1,
                                   ![c].acc = Append(calls[c].acc, calls[c].rd[1]),
                                   ![c].rd = None]
       ELSE calls' = [calls EXCEPT ![c].pc = "done", ![c].io = "none", ![c].res = "ok",
                                   ![c].acc = Append(calls[c].acc, calls[c].rd[1])]
    /\ UNCHANGED <<store, lock, mq, waitq, totalObservers, ads, order, base, ocObsVars, idxVars, regVars, itVars>>

InitSlice ==
    /\ \E s \in UNION {[1..n -> MixVals] : n \in 0..MaxSliceLen} : store = StoreOf(s)
    /\ base = store
    /\ lock = 0
    /\ calls = [c \in SliceCalls |-> IdleCall]
    /\ mq = <<>>
    /\ waitq = <<>>
    /\ totalObservers = <<>>
    /\ ads = [c \in SliceCalls |-> <<>>]
    /\ order = <<>>
    /\ ocKeyObservers = <<>>
    /\ ocDs = [c \in DOMAIN calls |-> None]
    /\ alone = {}
    /\ IdxUnused
    /\ RegUnused
    /\ ItUnused

NextSlice ==
    \/ \E c \in SliceCalls : IssueSlice(c)
    \/ \E c \in SliceCalls : CallLength(c)
    \/ \E c \in SliceCalls : LengthGet(c)
    \/ \E c \in SliceCalls : EngineRead(c)
    \/ \E c \in SliceCalls : SliceAfterLength(c)
    \/ \E c \in SliceCalls : SliceAfterGet(c)

SpecSlice == InitSlice /\ [][NextSlice]_vars

\* ------------------------------------------------------ observeLastNElements
Amounts == 1..MaxAmount

\* part_002 lines 471-472: observeLastNElements(amount, token) runs to `await this.lock`;
\* the call record keeps amount in index.
IssueObserveLast(c) == \E n \in Amounts : Issue(c, "observeLastNElements", <<>>, n)

AwaitedObserveLast(c) == AllSettled /\ IssueObserveLast(c)

\* A set at a slot the collection holds.
AwaitedSetStored(c) ==
    /\ AllSettled
    /\ store.meta # None
    /\ \E i \in 0..(store.meta[1] - 1), v \in MixVals : Issue(c, "set", <<v>>, i)

\* part_002 line 475: the first slot of the view, Math.max(0, len - amount).
WindowStart(len, amount) == IF len - amount > 0 THEN len - amount ELSE 0

\* part_002 lines 478-487: the ArrayDataSource is pushed on this.totalObservers and
\* returned.
LastRegister(c, items) ==
    /\ calls' = [calls EXCEPT ![c].pc = "done", ![c].io = "none", ![c].res = "ok",
                              ![c].acc = items]
    /\ ads' = [ads EXCEPT ![c] = items]
    /\ totalObservers' = Append(totalObservers, c)
    /\ UNCHANGED <<mq, waitq>>

\* part_002 lines 476, 495-496: this.get(i) is called and runs to its `await this.lock`.
LastCallsGet(c, i, items) ==
    /\ calls' = [calls EXCEPT ![c].pc = "getLock", ![c].io = "none", ![c].i = i,
                              ![c].acc = items, ![c].rd = None]
    /\ mq' = MqAwait(mq, c, lock)
    /\ waitq' = WaitqAwait(waitq, c, lock)
    /\ UNCHANGED <<ads, totalObservers>>

\* part_002 lines 473-476: length() returned to observeLastNElements: the loop starts at
\* the first slot of the view, or the empty view is registered; a failed length() rejects.
LastAfterLength(c) ==
    /\ mq = <<>>
    /\ calls[c].op = "observeLastNElements" /\ ~calls[c].hasLen
    /\ calls[c].pc = "lenGet" /\ calls[c].io = "ready"
    /\ IF calls[c].rd = None
       THEN /\ calls' = [calls EXCEPT ![c].pc = "done", ![c].io = "none", ![c].res = "err"]
            /\ UNCHANGED <<ads, totalObservers, mq, waitq>>
       ELSE LET len == calls[c].rd[1]
                first == WindowStart(len, calls[c].index)
            IN IF first < len
               THEN /\ calls' = [calls EXCEPT ![c].pc = "getLock", ![c].io = "none",
                                              ![c].len = len, ![c].hasLen = TRUE,
                                              ![c].i = first, ![c].rd = None]
                    /\ mq' = MqAwait(mq, c, lock)
                    /\ waitq' = WaitqAwait(waitq, c, lock)
                    /\ UNCHANGED <<ads, totalObservers>>
               ELSE LastRegister(c, <<>>)
    /\ UNCHANGED <<store, lock, order, base, ocObsVars, idxVars, regVars, itVars>>

\* part_002 lines 496-497: get(i) after `await this.lock` calls length(), which awaits
\* this.lock again.
LastGetCallsLength(c) ==
    /\ mq # <<>> /\ Head(mq) = c
    /\ calls[c].pc = "getLock"
    /\ calls' = [calls EXCEPT ![c].pc = "lenLock"]
    /\ mq' = MqAwait(Tail(mq), c, lock)
    /\ waitq' = WaitqAwait(waitq, c, lock)
    /\ UNCHANGED <<store, lock, totalObservers, ads, order, base, ocObsVars, idxVars, regVars, itVars>>

\* part_002 line 498: the bound check of get.
GetOutOfBounds(index, len) == index > len

\* part_002 lines 497-501: length() returned to get(i): out of bounds (or a failed
\* length()) rejects, otherwise db.get(i) is requested.
LastGetAfterLength(c) ==
    /\ mq = <<>>
    /\ calls[c].op = "observeLastNElements" /\ calls[c].hasLen
    /\ calls[c].pc = "lenGet" /\ calls[c].io = "ready"
    /\ IF calls[c].rd = None \/ GetOutOfBounds(calls[c].i, calls[c].rd[1])
       THEN calls' = [calls EXCEPT ![c].pc = "done", ![c].io = "none", ![c].res = "err"]
       ELSE calls' = [calls EXCEPT ![c].pc = "lastGet", ![c].io = "pending",
                                   ![c].rd = None]
    /\ UNCHANGED <<store, lock, mq, waitq, totalObservers, ads, order, base, ocObsVars, idxVars, regVars, itVars>>

\* part_002 lines 475-478, 501: db.get(i) returned: the item is pushed on the view and
\* the next slot is read with get, or the view is registered; NotFound rejects.
LastAfterGet(c) ==
    /\ mq = <<>>
    /\ calls[c].pc = "lastGet" /\ calls[c].io = "ready"
    /\ IF calls[c].rd = None
       THEN /\ calls' = [calls EXCEPT ![c].pc = "done", ![c].io = "none", ![c].res = "err"]
            /\ UNCHANGED <<ads, totalObservers, mq, waitq>>
       ELSE IF calls[c].i + 1 < calls[c].len
       THEN LastCallsGet(c, calls[c].i + 1, Append(calls[c].acc, calls[c].rd[1]))
       ELSE LastRegister(c, Append(calls[c].acc, calls[c].rd[1]))
    /\ UNCHANGED <<store, lock, order, base, ocObsVars, idxVars, regVars, itVars>>

NextWindow ==
    \/ \E c \in OCCalls : AwaitedObserveLast(c)
    \/ \E c \in OCCalls : AwaitedPush(c)
    \/ \E c \in OCCalls : AwaitedPop(c)
    \/ \E c \in OCCalls : AwaitedSetStored(c)
    \/ \E c \in OCCalls : InstallLock(c)
    \/ \E c \in OCCalls : CallLength(c)
    \/ \E c \in OCCalls : LengthGet(c)
    \/ \E c \in OCCalls : EngineRead(c)
    \/ \E c \in OCCalls : PushAfterLength(c)
    \/ \E c \in OCCalls : PushWritten(c)
    \/ \E c \in OCCalls : PopAfterLength(c)
    \/ \E c \in OCCalls : PopAfterGet(c)
    \/ \E c \in OCCalls : PopWritten(c)
    \/ \E c \in OCCalls : SetAfterLength(c)
    \/ \E c \in OCCalls : SetWritten(c)
    \/ \E c \in OCCalls : LastAfterLength(c)
    \/ \E c \in OCCalls : LastGetCallsLength(c)
    \/ \E c \in OCCalls : LastGetAfterLength(c)
    \/ \E c \in OCCalls : LastAfterGet(c)

SpecWindow == InitOC /\ [][NextWindow]_vars

\* ------------------------------------------- observers on a failing engine
\* Line 484: db.put(index, item) rejects: nothing is written, no event is emitted, and
\* set, which returns that promise, rejects.
SetPutFails(c) ==
    /\ mq = <<>>
    /\ calls[c].op = "set" /\ calls[c].pc = "setPut"
    /\ calls' = [calls EXCEPT ![c].pc = "done", ![c].io = "failed", ![c].res = "err"]
    /\ UNCHANGED <<store, lock, mq, waitq, totalObservers, ads, order, base, ocObsVars, idxVars, regVars, itVars>>

NextObservedFaults ==
    \/ \E c \in OCCalls : AwaitedObserve(c)
    \/ \E c \in OCCalls : AwaitedPush(c)
    \/ \E c \in OCCalls : AwaitedPop(c)
    \/ \E c \in OCCalls : AwaitedSetStored(c)
    \/ \E c \in OCCalls : InstallLock(c)
    \/ \E c \in OCCalls : CallLength(c)
    \/ \E c \in OCCalls : ObserveCallsToArray(c)
    \/ \E c \in OCCalls : LengthGet(c)
    \/ \E c \in OCCalls : EngineRead(c)
    \/ \E c \in OCCalls : PushAfterLength(c)
    \/ \E c \in OCCalls : PushWritten(c)
    \/ \E c \in OCCalls : PopAfterLength(c)
    \/ \E c \in OCCalls : PopAfterGet(c)
    \/ \E c \in OCCalls : PopWritten(c)
    \/ \E c \in OCCalls : BatchWriteFails(c)
    \/ \E c \in OCCalls : SetAfterLength(c)
    \/ \E c \in OCCalls : SetWritten(c)
    \/ \E c \in OCCalls : SetPutFails(c)
    \/ \E c \in OCCalls : ArrayAfterLength(c)
    \/ \E c \in OCCalls : ArrayAfterGet(c)

SpecObservedFaults == InitOC /\ [][NextObservedFaults]_vars

\* ================================================== the index
META_KEY == "!!meta!!"
DataKeys == {"a", "b"}
IdxKeys == DataKeys \cup {META_KEY}

\* The engine's key order: '!' sorts before the letters.
KeyOrder == <<META_KEY, "a", "b">>

\* A filter that takes every key for a reserved one.
IncludesAnything(k) == TRUE

\* key.includes('!')
IncludesDelimiter(k) == k = META_KEY

\* Lines 64-66: hasIndex(name) is has() of the metadata key of the partition.
HasIndex == META_KEY \in DOMAIN istore

\* The value of the metadata record of an index: new Date().toJSON().
Stamp == 0

IdxVals == 1..MaxIdxVal
Tokens == 1..MaxTokens
IdxCalls == 1..MaxIdxCalls

GetKey(m, k) == IF k \in DOMAIN m THEN Some(m[k]) ELSE None
MapSet(m, k, v) == [x \in (DOMAIN m) \cup {k} |-> IF x = k THEN v ELSE m[x]]
MapDelete(m, k) == [x \in (DOMAIN m) \ {k} |-> m[x]]

InSeq(s, x) == \E n \in 1..Len(s) : s[n] = x

IdleIdx ==
    [op |-> "none", key |-> "", val |-> None, tok |-> 0, pc |-> "idle", io |-> "none",
     rd |-> None, snap |-> <<>>, res |-> "none", clean |-> FALSE]

IdxInFlight(c) == icalls[c].pc \notin {"idle", "done"}
IdxQuiet == \A c \in IdxCalls : ~IdxInFlight(c)

\* A cleanup action that removes nothing.
KeepObserver(list, o) == list

\* A cleanup that splices without looking at the result of indexOf: splice(-1, 1)
\* removes the last element.
RemoveObserverUnchecked(list, o) ==
    IF list = <<>> THEN list
    ELSE IF ~InSeq(list, o) THEN SubSeq(list, 1, Len(list) - 1)
    ELSE LET n == CHOOSE n \in 1..Len(list) :
                      list[n] = o /\ \A m \in 1..(n - 1) : list[m] # o
         IN SubSeq(list, 1, n - 1) \o SubSeq(list, n + 1, Len(list))

\* Lines 263-266, 300-304: indexOf and splice.
RemoveObserver(list, o) ==
    IF ~InSeq(list, o) THEN list
    ELSE LET n == CHOOSE n \in 1..Len(list) :
                      list[n] = o /\ \A m \in 1..(n - 1) : list[m] # o
         IN SubSeq(list, 1, n - 1) \o SubSeq(list, n + 1, Len(list))

\* A handler that tells the per-key observers of puts only.
OnKeyChangePutsOnly(obs, k, v) ==
    [views |-> [o \in DOMAIN obs.views |->
                  IF InSeq(itotalObservers, o)
                  THEN IF v = None THEN MapDelete(obs.views[o], k)
                       ELSE MapSet(obs.views[o], k, v[1])
                  ELSE obs.views[o]],
     ds |-> [o \in DOMAIN obs.ds |->
               IF InSeq(keyObservers[k], o) /\ v # None THEN v ELSE obs.ds[o]]]

\* Lines 237-250: onKeyChange(k, v) on the observers obs = [views, ds].
OnKeyChange(obs, k, v) ==
    [views |-> [o \in DOMAIN obs.views |->
                  IF InSeq(itotalObservers, o)
                  THEN IF v = None THEN MapDelete(obs.views[o], k)
                       ELSE MapSet(obs.views[o], k, v[1])
                  ELSE obs.views[o]],
     ds |-> [o \in DOMAIN obs.ds |->
               IF InSeq(keyObservers[k], o) THEN v ELSE obs.ds[o]]]

\* Lines 223-235: onClear().
OnClear(obs) ==
    [views |-> [o \in DOMAIN obs.views |->
                  IF InSeq(itotalObservers, o) THEN <<>> ELSE obs.views[o]],
     ds |-> [o \in DOMAIN obs.ds |->
               IF \E k \in IdxKeys : InSeq(keyObservers[k], o) THEN None ELSE obs.ds[o]]]

Observers == [views |-> views, ds |-> dsVal]

\* The caller invokes a method of the index; a call issued while another is in
\* flight makes that one's run no longer undisturbed.
IdxIssue(c, rec) ==
    /\ icalls[c].pc = "idle"
    /\ \A d \in 1..(c - 1) : icalls[d].pc # "idle"
    /\ icalls' = [d \in IdxCalls |->
                    IF d = c THEN [rec EXCEPT !.clean = IdxQuiet]
                    ELSE IF IdxInFlight(d) THEN [icalls[d] EXCEPT !.clean = FALSE]
                    ELSE icalls[d]]
    /\ lastStep' = [type |-> "none"]

\* Lines 324-329: set(key, value) requests a put, or a delete when the value is absent
\* and autoDeleteOnSetUndefined is on.
IdxIssueSet(c) ==
    \E k \in DataKeys, v \in IdxVals :
        /\ IdxIssue(c, [IdleIdx EXCEPT !.op = "set", !.key = k, !.val = Some(v),
                                       !.pc = IF config /\ Some(v) = None THEN "del" ELSE "put",
                                       !.io = "pending"])
        /\ UNCHANGED <<istore, itotalObservers, views, keyObservers, dsVal, cancelled,
                       config, nbatch, ocVars, regVars, itVars>>

\* Lines 331-333: delete(key).
IdxIssueDelete(c) ==
    \E k \in DataKeys :
        /\ IdxIssue(c, [IdleIdx EXCEPT !.op = "delete", !.key = k, !.pc = "del",
                                       !.io = "pending"])
        /\ UNCHANGED <<istore, itotalObservers, views, keyObservers, dsVal, cancelled,
                       config, nbatch, ocVars, regVars, itVars>>

\* The engine serves a read of the index.
IdxEngineRead(c) ==
    /\ icalls[c].pc \in {"clrGet", "hasGet", "okGet", "scanGet", "exists"}
    /\ icalls[c].io = "pending"
    /\ icalls' = [icalls EXCEPT ![c].io = "ready", ![c].rd = GetKey(istore, icalls[c].key)]
    /\ lastStep' = [type |-> "none"]
    /\ UNCHANGED <<istore, itotalObservers, views, keyObservers, dsVal, cancelled,
                   config, nbatch, ocVars, regVars, itVars>>

\* Lines 215-217, 328: the put completes and the engine emits 'put'.
IdxPutDone(c) ==
    /\ icalls[c].op = "set" /\ icalls[c].pc = "put"
    /\ istore' = MapSet(istore, icalls[c].key, icalls[c].val[1])
    /\ LET obs == OnKeyChange(Observers, icalls[c].key, icalls[c].val)
       IN views' = obs.views /\ dsVal' = obs.ds
    /\ icalls' = [icalls EXCEPT ![c].pc = "done", ![c].io = "none", ![c].res = "ok"]
    /\ lastStep' = [type |-> "put", key |-> icalls[c].key, val |-> icalls[c].val,
                     call |-> c]
    /\ UNCHANGED <<itotalObservers, keyObservers, cancelled, config, nbatch, ocVars, regVars, itVars>>

\* Lines 218-220, 326, 332: the delete completes and the engine emits 'del'.
IdxDelDone(c) ==
    /\ icalls[c].op \in {"set", "delete"} /\ icalls[c].pc = "del"
    /\ istore' = MapDelete(istore, icalls[c].key)
    /\ LET obs == OnKeyChange(Observers, icalls[c].key, None)
       IN views' = obs.views /\ dsVal' = obs.ds
    /\ icalls' = [icalls EXCEPT ![c].pc = "done", ![c].io = "none", ![c].res = "ok"]
    /\ lastStep' = [type |-> "del", key |-> icalls[c].key, val |-> None, call |-> c]
    /\ UNCHANGED <<itotalObservers, keyObservers, cancelled, config, nbatch, ocVars, regVars, itVars>>

\* Lines 256-270: observeEntireIndex(token): the cursor is opened on a snapshot of the
\* keys, the result is pushed on this.totalObservers, the cleanup action is added to the
\* token and the first iter.next is requested.
IdxIssueObserveAll(c) ==
    \E t \in Tokens :
        /\ ~cancelled[t]
        /\ IdxIssue(c, [IdleIdx EXCEPT !.op = "observeEntireIndex", !.tok = t,
                          !.pc = "scanNext",
                          !.snap = SelectSeq(KeyOrder, LAMBDA k : k \in DOMAIN istore)])
        /\ itotalObservers' = Append(itotalObservers, c)
        /\ views' = [views EXCEPT ![c] = <<>>]
        /\ cursor' = [cursor EXCEPT ![c] = OpenCursor(<<>>)]
        /\ UNCHANGED <<istore, keyObservers, dsVal, cancelled, config, nbatch, ocVars, regVars,
                       itcalls, current>>

\* Lines 270-284: the callback of iter.next: at the end of the snapshot the cursor is
\* ended and the promise resolved; a key with '!' is skipped; for any other key
\* this.get(key) is requested.
ScanNext(c) ==
    /\ icalls[c].op = "observeEntireIndex" /\ icalls[c].pc = "scanNext"
    /\ IF icalls[c].snap = <<>>
       THEN /\ icalls' = [icalls EXCEPT ![c].pc = "done", ![c].res = "ok"]
            /\ cursor' = [cursor EXCEPT ![c] = CursorEnd(@).cur]
       ELSE /\ IF IncludesDelimiter(Head(icalls[c].snap))
               THEN icalls' = [icalls EXCEPT ![c].snap = Tail(icalls[c].snap)]
               ELSE icalls' = [icalls EXCEPT ![c].pc = "scanGet", ![c].io = "pending",
                                             ![c].key = Head(icalls[c].snap),
                                             ![c].snap = Tail(icalls[c].snap)]
            /\ UNCHANGED cursor
    /\ lastStep' = [type |-> "none"]
    /\ UNCHANGED <<istore, itotalObservers, views, keyObservers, dsVal, cancelled,
                   config, nbatch, ocVars, regVars, itcalls, current>>

\* Lines 271-277: the callback of iter.next with an error: the cursor is ended and the
\* promise rejected; the callback does not return there, and as the key is undefined
\* it ends the cursor a second time (the engine refuses) and calls resolve, to no effect.
ScanFails(c) ==
    /\ icalls[c].op = "observeEntireIndex" /\ icalls[c].pc = "scanNext"
    /\ icalls' = [icalls EXCEPT ![c].pc = "done", ![c].res = "err"]
    /\ cursor' = [cursor EXCEPT ![c] = CursorEnd(CursorEnd(@).cur).cur]
    /\ lastStep' = [type |-> "none"]
    /\ UNCHANGED <<istore, itotalObservers, views, keyObservers, dsVal, cancelled,
                   config, nbatch, ocVars, regVars, itcalls, current>>

\* Lines 279-280: this.get(key) returned: NotFound throws inside the callback (the
\* promise never settles); otherwise result.set(key, value) and the next iter.next.
ScanAfterGet(c) ==
    /\ icalls[c].pc = "scanGet" /\ icalls[c].io = "ready"
    /\ IF icalls[c].rd = None
       THEN /\ icalls' = [icalls EXCEPT ![c].pc = "dead", ![c].io = "none"]
            /\ UNCHANGED views
       ELSE /\ icalls' = [icalls EXCEPT ![c].pc = "scanNext", ![c].io = "none",
                                        ![c].rd = None]
            /\ views' = [views EXCEPT ![c] = MapSet(views[c], icalls[c].key, icalls[c].rd[1])]
    /\ lastStep' = [type |-> "none"]
    /\ UNCHANGED <<istore, itotalObservers, keyObservers, dsVal, cancelled, config, nbatch, ocVars, regVars, itVars>>

\* Lines 288-291, 76-78: observeKey(key, token) calls has(key), which requests the key.
IdxIssueObserveKey(c) ==
    \E k \in DataKeys, t \in Tokens :
        /\ ~cancelled[t]
        /\ IdxIssue(c, [IdleIdx EXCEPT !.op = "observeKey", !.key = k, !.tok = t,
                                       !.pc = "hasGet", !.io = "pending"])
        /\ UNCHANGED <<istore, itotalObservers, views, keyObservers, dsVal, cancelled,
                       config, nbatch, ocVars, regVars, itVars>>

\* Lines 295-307: the DataSource is pushed on this.keyObservers.get(key), the cleanup
\* action is added to the token and the DataSource is returned.
RegisterKeyObserver(c, v) ==
    /\ icalls' = [icalls EXCEPT ![c].pc = "done", ![c].io = "none", ![c].res = "ok"]
    /\ dsVal' = [dsVal EXCEPT ![c] = v]
    /\ keyObservers' = [keyObservers EXCEPT ![icalls[c].key] = Append(@, c)]
    /\ lastStep' = [type |-> "observed", call |-> c]

\* Lines 291-292: has(key) returned: false registers the observer with no value; true
\* requests this.get(key).
ObserveKeyAfterHas(c) ==
    /\ icalls[c].pc = "hasGet" /\ icalls[c].io = "ready"
    /\ IF icalls[c].rd = None
       THEN RegisterKeyObserver(c, None)
       ELSE /\ icalls' = [icalls EXCEPT ![c].pc = "okGet", ![c].io = "pending",
                                        ![c].rd = None]
            /\ lastStep' = [type |-> "none"]
            /\ UNCHANGED <<dsVal, keyObservers>>
    /\ UNCHANGED <<istore, itotalObservers, views, cancelled, config, nbatch, ocVars, regVars, itVars>>

\* Lines 292-307: this.get(key) returned: NotFound rejects observeKey; otherwise the
\* DataSource takes the value and is registered.
ObserveKeyAfterGet(c) ==
    /\ icalls[c].pc = "okGet" /\ icalls[c].io = "ready"
    /\ IF icalls[c].rd = None
       THEN /\ icalls' = [icalls EXCEPT ![c].pc = "done", ![c].io = "none", ![c].res = "err"]
            /\ lastStep' = [type |-> "none"]
            /\ UNCHANGED <<dsVal, keyObservers>>
       ELSE RegisterKeyObserver(c, icalls[c].rd)
    /\ UNCHANGED <<istore, itotalObservers, views, cancelled, config, nbatch, ocVars, regVars, itVars>>

\* The observe calls whose cleanup action the token holds, in the order they were added.
Cancelables(t) ==
    {c \in IdxCalls : /\ icalls[c].tok = t
                      /\ \/ icalls[c].op = "observeEntireIndex"
                         \/ icalls[c].op = "observeKey" /\ icalls[c].res = "ok"}

RECURSIVE RemoveAll(_, _)
RemoveAll(list, cs) ==
    IF cs = {} THEN list
    ELSE LET c == CHOOSE c \in cs : TRUE IN RemoveAll(RemoveObserver(list, c), cs \ {c})

\* token.cancel(): every cleanup action of the token runs (lines 262-267, 299-305).  A
\* token is not cancelled while an observeKey that will add to it is still running.
IdxCancel(t) ==
    /\ ~cancelled[t]
    /\ \A c \in IdxCalls : (icalls[c].op = "observeKey" /\ icalls[c].tok = t) => ~IdxInFlight(c)
    /\ cancelled' = [cancelled EXCEPT ![t] = TRUE]
    /\ itotalObservers' = RemoveAll(itotalObservers, Cancelables(t))
    /\ keyObservers' = [k \in IdxKeys |-> RemoveAll(keyObservers[k], Cancelables(t))]
    /\ lastStep' = [type |-> "none"]
    /\ UNCHANGED <<istore, icalls, views, dsVal, config, nbatch, ocVars, regVars, itVars>>

\* The caller drops a settled call that left no observer behind.
IdxRetire(c) ==
    /\ icalls[c].pc = "done"
    /\ ~(icalls[c].op \in {"observeKey", "observeEntireIndex"} /\ icalls[c].res = "ok")
    /\ ~InSeq(itotalObservers, c)
    /\ icalls' = [icalls EXCEPT ![c] = IdleIdx]
    /\ lastStep' = [type |-> "none"]
    /\ UNCHANGED <<istore, itotalObservers, views, keyObservers, dsVal, cancelled,
                   config, nbatch, ocVars, regVars, itVars>>

\* Lines 334-335: clear() reads the metadata record first.
IdxIssueClear(c) ==
    /\ IdxIssue(c, [IdleIdx EXCEPT !.op = "clear", !.key = META_KEY, !.pc = "clrGet",
                                   !.io = "pending"])
    /\ UNCHANGED <<istore, itotalObservers, views, keyObservers, dsVal, cancelled,
                   config, nbatch, ocVars, regVars, itVars>>

\* Lines 335-336: the metadata was read (NotFound rejects clear); db.clear() is requested.
IdxClearAfterGet(c) ==
    /\ icalls[c].pc = "clrGet" /\ icalls[c].io = "ready"
    /\ IF icalls[c].rd = None
       THEN icalls' = [icalls EXCEPT ![c].pc = "done", ![c].io = "none", ![c].res = "err"]
       ELSE icalls' = [icalls EXCEPT ![c].pc = "clear", ![c].io = "pending",
                                     ![c].val = icalls[c].rd, ![c].rd = None]
    /\ lastStep' = [type |-> "none"]
    /\ UNCHANGED <<istore, itotalObservers, views, keyObservers, dsVal, cancelled,
                   config, nbatch, ocVars, regVars, itVars>>

\* Lines 212-214, 336-337: db.clear() completes, the engine emits 'clear', and clear()
\* goes on to this.set(META_KEY, val).
IdxCleared(c) ==
    /\ icalls[c].op = "clear" /\ icalls[c].pc = "clear"
    /\ istore' = <<>>
    /\ LET obs == OnClear(Observers) IN views' = obs.views /\ dsVal' = obs.ds
    /\ icalls' = [icalls EXCEPT ![c].pc = IF config /\ icalls[c].val = None
                                          THEN "clrDel" ELSE "clrPut"]
    /\ lastStep' = [type |-> "clear"]
    /\ UNCHANGED <<itotalObservers, keyObservers, cancelled, config, nbatch, ocVars, regVars, itVars>>

\* A clear that ends without putting the metadata record back.
IdxClearMetaDropped(c) ==
    /\ icalls[c].op = "clear" /\ icalls[c].pc = "clrPut"
    /\ icalls' = [icalls EXCEPT ![c].pc = "done", ![c].io = "none", ![c].res = "ok"]
    /\ lastStep' = [type |-> "put", key |-> META_KEY, val |-> icalls[c].val, call |-> c]
    /\ UNCHANGED <<istore, views, dsVal, itotalObservers, keyObservers, cancelled, config,
                   nbatch, ocVars, regVars, itVars>>

\* Lines 215-217, 328, 337: the metadata record is put back and the engine emits 'put'.
IdxClearMetaWritten(c) ==
    /\ icalls[c].op = "clear" /\ icalls[c].pc = "clrPut"
    /\ istore' = MapSet(istore, META_KEY, icalls[c].val[1])
    /\ LET obs == OnKeyChange(Observers, META_KEY, icalls[c].val)
       IN views' = obs.views /\ dsVal' = obs.ds
    /\ icalls' = [icalls EXCEPT ![c].pc = "done", ![c].io = "none", ![c].res = "ok"]
    /\ lastStep' = [type |-> "put", key |-> META_KEY, val |-> icalls[c].val, call |-> c]
    /\ UNCHANGED <<itotalObservers, keyObservers, cancelled, config, nbatch, ocVars, regVars, itVars>>

\* The operations of a batch written through the index's handle.
BatchOps ==
    [type : {"put"}, key : DataKeys, value : {Some(v) : v \in IdxVals}]
        \cup [type : {"del"}, key : DataKeys, value : {None}]

Batches == UNION {[1..n -> BatchOps] : n \in 1..MaxBatch}

RECURSIVE ApplyBatch(_, _)
ApplyBatch(st, ops) ==
    IF ops = <<>> THEN st
    ELSE ApplyBatch(IF Head(ops).type = "put"
                    THEN MapSet(st, Head(ops).key, Head(ops).value[1])
                    ELSE MapDelete(st, Head(ops).key),
                    Tail(ops))

\* Lines 193-211: the handler of 'batch' walks the operations in order.
RECURSIVE OnBatch(_, _)
OnBatch(obs, ops) ==
    IF ops = <<>> THEN obs
    ELSE OnBatch(OnKeyChange(obs, Head(ops).key,
                             IF Head(ops).type = "put" THEN Head(ops).value ELSE None),
                 Tail(ops))

\* A batch on the index's handle completes and the engine emits 'batch'.
IdxBatchWritten(ops) ==
    /\ nbatch < MaxBatches
    /\ nbatch' = nbatch + 1
    /\ istore' = ApplyBatch(istore, ops)
    /\ LET obs == OnBatch(Observers, ops) IN views' = obs.views /\ dsVal' = obs.ds
    /\ icalls' = [d \in IdxCalls |->
                    IF IdxInFlight(d) THEN [icalls[d] EXCEPT !.clean = FALSE] ELSE icalls[d]]
    /\ lastStep' = [type |-> "batch", ops |-> ops]
    /\ UNCHANGED <<itotalObservers, keyObservers, cancelled, config, ocVars, regVars, itVars>>

OcUnused ==
    /\ store = <<>> /\ lock = 0 /\ calls = <<>> /\ mq = <<>> /\ waitq = <<>>
    /\ totalObservers = <<>> /\ ads = <<>> /\ order = <<>> /\ base = <<>>
    /\ ocKeyObservers = <<>> /\ ocDs = <<>> /\ alone = {}

\* The index after createIndex (lines 142-151), autoDeleteOnSetUndefined off.
InitIndex ==
    /\ istore = MapSet(<<>>, META_KEY, Stamp)
    /\ icalls = [c \in IdxCalls |-> IdleIdx]
    /\ itotalObservers = <<>>
    /\ views = [c \in IdxCalls |-> <<>>]
    /\ keyObservers = [k \in IdxKeys |-> <<>>]
    /\ dsVal = [c \in IdxCalls |-> None]
    /\ cancelled = [t \in Tokens |-> FALSE]
    /\ config = FALSE
    /\ nbatch = 0
    /\ lastStep = [type |-> "none"]
    /\ cursor = [c \in IdxCalls |-> OpenCursor(<<>>)]
    /\ itcalls = <<>> /\ current = <<>>
    /\ OcUnused
    /\ RegUnused

\* Observers of the index while keys are set and deleted.
NextReadWrite ==
    \/ \E c \in IdxCalls : IdxIssueSet(c)
    \/ \E c \in IdxCalls : IdxIssueDelete(c)
    \/ \E c \in IdxCalls : IdxIssueObserveAll(c)
    \/ \E c \in IdxCalls : IdxIssueObserveKey(c)
    \/ \E c \in IdxCalls : IdxEngineRead(c)
    \/ \E c \in IdxCalls : IdxPutDone(c)
    \/ \E c \in IdxCalls : IdxDelDone(c)
    \/ \E c \in IdxCalls : ScanNext(c)
    \/ \E c \in IdxCalls : ScanAfterGet(c)
    \/ \E c \in IdxCalls : ObserveKeyAfterHas(c)
    \/ \E c \in IdxCalls : ObserveKeyAfterGet(c)
    \/ \E c \in IdxCalls : IdxRetire(c)

SpecReadWrite == InitIndex /\ [][NextReadWrite]_vars

\* The same on an engine whose cursor may fail.
NextScan ==
    \/ \E c \in IdxCalls : IdxIssueSet(c)
    \/ \E c \in IdxCalls : IdxIssueDelete(c)
    \/ \E c \in IdxCalls : IdxIssueObserveAll(c)
    \/ \E c \in IdxCalls : IdxIssueObserveKey(c)
    \/ \E c \in IdxCalls : IdxEngineRead(c)
    \/ \E c \in IdxCalls : IdxPutDone(c)
    \/ \E c \in IdxCalls : IdxDelDone(c)
    \/ \E c \in IdxCalls : ScanNext(c)
    \/ \E c \in IdxCalls : ScanAfterGet(c)
    \/ \E c \in IdxCalls : ObserveKeyAfterHas(c)
    \/ \E c \in IdxCalls : ObserveKeyAfterGet(c)
    \/ \E c \in IdxCalls : IdxRetire(c)
    \/ \E c \in IdxCalls : ScanFails(c)

SpecScan == InitIndex /\ [][NextScan]_vars

\* Every operation of the index, with cancellation.
NextIndex ==
    \/ \E c \in IdxCalls : IdxIssueSet(c)
    \/ \E c \in IdxCalls : IdxIssueDelete(c)
    \/ \E c \in IdxCalls : IdxIssueClear(c)
    \/ \E c \in IdxCalls : IdxIssueObserveAll(c)
    \/ \E c \in IdxCalls : IdxIssueObserveKey(c)
    \/ \E c \in IdxCalls : IdxEngineRead(c)
    \/ \E c \in IdxCalls : IdxPutDone(c)
    \/ \E c \in IdxCalls : IdxDelDone(c)
    \/ \E c \in IdxCalls : IdxClearAfterGet(c)
    \/ \E c \in IdxCalls : IdxCleared(c)
    \/ \E c \in IdxCalls : IdxClearMetaWritten(c)
    \/ \E c \in IdxCalls : ScanNext(c)
    \/ \E c \in IdxCalls : ScanAfterGet(c)
    \/ \E c \in IdxCalls : ObserveKeyAfterHas(c)
    \/ \E c \in IdxCalls : ObserveKeyAfterGet(c)
    \/ \E t \in Tokens : IdxCancel(t)
    \/ \E c \in IdxCalls : IdxRetire(c)

SpecIndex == InitIndex /\ [][NextIndex]_vars

\* Per-key observers of the index under every kind of change event.
NextEvents ==
    \/ \E c \in IdxCalls : IdxIssueSet(c)
    \/ \E c \in IdxCalls : IdxIssueDelete(c)
    \/ \E c \in IdxCalls : IdxIssueClear(c)
    \/ \E c \in IdxCalls : IdxIssueObserveKey(c)
    \/ \E c \in IdxCalls : IdxEngineRead(c)
    \/ \E c \in IdxCalls : IdxPutDone(c)
    \/ \E c \in IdxCalls : IdxDelDone(c)
    \/ \E c \in IdxCalls : IdxClearAfterGet(c)
    \/ \E c \in IdxCalls : IdxCleared(c)
    \/ \E c \in IdxCalls : IdxClearMetaWritten(c)
    \/ \E ops \in Batches : IdxBatchWritten(ops)
    \/ \E c \in IdxCalls : ObserveKeyAfterHas(c)
    \/ \E c \in IdxCalls : ObserveKeyAfterGet(c)
    \/ \E c \in IdxCalls : IdxRetire(c)

SpecEvents == InitIndex /\ [][NextEvents]_vars

\* ------------------------------------------- existence checks during clear
\* Lines 64-66, 76-78: hasIndex(name) on the database of the index: has() requests
\* db.get of the metadata key of the partition.
IdxIssueHasIndex(c) ==
    /\ IdxIssue(c, [IdleIdx EXCEPT !.op = "hasIndex", !.key = META_KEY, !.pc = "exists",
                                   !.io = "pending"])
    /\ UNCHANGED <<istore, itotalObservers, views, keyObservers, dsVal, cancelled,
                   config, nbatch, ocVars, regVars, itVars>>

\* Lines 78-86: the read returned to has(): NotFound makes it false.
HasIndexReturned(c) ==
    /\ icalls[c].pc = "exists" /\ icalls[c].io = "ready"
    /\ icalls' = [icalls EXCEPT ![c].pc = "done", ![c].io = "none",
                                ![c].res = IF icalls[c].rd = None THEN "false" ELSE "true"]
    /\ lastStep' = [type |-> "none"]
    /\ UNCHANGED <<istore, itotalObservers, views, keyObservers, dsVal, cancelled,
                   config, nbatch, ocVars, regVars, itVars>>

NextExists ==
    \/ \E c \in IdxCalls : IdxIssueSet(c)
    \/ \E c \in IdxCalls : IdxIssueClear(c)
    \/ \E c \in IdxCalls : IdxIssueHasIndex(c)
    \/ \E c \in IdxCalls : IdxEngineRead(c)
    \/ \E c \in IdxCalls : IdxPutDone(c)
    \/ \E c \in IdxCalls : IdxClearAfterGet(c)
    \/ \E c \in IdxCalls : IdxCleared(c)
    \/ \E c \in IdxCalls : IdxClearMetaWritten(c)
    \/ \E c \in IdxCalls : HasIndexReturned(c)
    \/ \E c \in IdxCalls : IdxRetire(c)

SpecExists == InitIndex /\ [][NextExists]_vars

\* ------------------------------------------------- cleanup actions run at any time
\* The call c has handed its cleanup action to the token (lines 261, 299).
HasCleanup(c) ==
    \/ icalls[c].op = "observeEntireIndex"
    \/ icalls[c].op = "observeKey" /\ icalls[c].res = "ok"

\* Lines 262-266, 300-304: the cleanup action of the observe call c runs, whether or not
\* it ran before.
RunCleanup(c) ==
    /\ HasCleanup(c)
    /\ IF icalls[c].op = "observeEntireIndex"
       THEN /\ itotalObservers' = RemoveObserver(itotalObservers, c)
            /\ UNCHANGED keyObservers
       ELSE /\ keyObservers' = [keyObservers EXCEPT
                                  ![icalls[c].key] = RemoveObserver(@, c)]
            /\ UNCHANGED itotalObservers
    /\ lastStep' = [type |-> "cleanup", call |-> c,
                     again |-> /\ ~InSeq(itotalObservers, c)
                               /\ \A k \in IdxKeys : ~InSeq(keyObservers[k], c)]
    /\ UNCHANGED <<istore, icalls, views, dsVal, cancelled, config, nbatch, ocVars,
                   regVars, itVars>>

\* Observers of the index, storage events, and cleanup actions run in any order.
NextCleanup ==
    \/ \E c \in IdxCalls : IdxIssueObserveAll(c)
    \/ \E c \in IdxCalls : IdxIssueObserveKey(c)
    \/ \E c \in IdxCalls : IdxEngineRead(c)
    \/ \E c \in IdxCalls : ScanNext(c)
    \/ \E c \in IdxCalls : ScanAfterGet(c)
    \/ \E c \in IdxCalls : ObserveKeyAfterHas(c)
    \/ \E c \in IdxCalls : ObserveKeyAfterGet(c)
    \/ \E ops \in Batches : IdxBatchWritten(ops)
    \/ \E c \in IdxCalls : RunCleanup(c)

SpecCleanup == InitIndex /\ [][NextCleanup]_vars

\* ================================================== values and encodings

\* The valueEncoding option of get and set (lines 310-324); utf8 stands for the text
\* encodings and is the engine's default.
Encodings == {"utf8", "json", "binary"}

\* JavaScript values handed to set: a string, a number, a Buffer; v holds the text of
\* the string, the digits of the number, the bytes of the Buffer.
Str(x) == [t |-> "string", v |-> x]
Num(x) == [t |-> "number", v |-> x]
Buf(x) == [t |-> "buffer", v |-> x]
Obj(x) == [t |-> "object", v |-> x]
Undefined == [t |-> "undefined", v |-> ""]
Null == [t |-> "null", v |-> ""]
ParseError == [t |-> "error", v |-> "Unexpected token"]

PresentVals == {Str("x"), Num("1"), Buf("x")}
AbsentVals == {Undefined, Null}

\* Line 325: value === undefined || value === null.
IsAbsent(v) == v.t \in {"undefined", "null"}

\* The encodings the typed overloads of set pair with the value (lines 320-322): any
\* JSON value with json, a Buffer with binary, a string with a text encoding.
Matches(v, enc) ==
    \/ enc = "json" /\ v.t \in {"string", "number"}
    \/ enc = "binary" /\ v.t = "buffer"
    \/ enc = "utf8" /\ v.t = "string"

\* JSON.stringify: a string is quoted, a number is its digits, a Buffer becomes an
\* object holding its bytes.
JsonStringify(v) ==
    IF v.t = "string" THEN "\"" \o v.v \o "\""
    ELSE IF v.t = "buffer" THEN "{\"type\":\"Buffer\",\"data\":\"" \o v.v \o "\"}"
    ELSE v.v

\* JSON.parse of stored bytes.
JsonParse(b) ==
    IF Len(b) >= 2 /\ SubSeq(b, 1, 1) = "\"" /\ SubSeq(b, Len(b), Len(b)) = "\""
    THEN Str(SubSeq(b, 2, Len(b) - 1))
    ELSE IF Len(b) >= 2 /\ SubSeq(b, 1, 1) = "{" THEN Obj(b)
    ELSE IF b \in {"0", "1", "2"} THEN Num(b)
    ELSE ParseError

\* An encoder that leaves strings unquoted under json.
encodeValuePlain(enc, v) == v.v

\* The bytes put() stores for v: utf8 stores a Buffer as it is and String(v) otherwise,
\* binary stores the bytes, json stores JSON.stringify(v).
encodeValue(enc, v) ==
    IF enc = "json" THEN JsonStringify(v) ELSE v.v

\* The value get() returns for stored bytes: utf8 a string, binary a Buffer, json the
\* parsed value.
decodeValue(enc, b) ==
    IF enc = "json" THEN JsonParse(b)
    ELSE IF enc = "binary" THEN Buf(b)
    ELSE Str(b)

\* db.get(key, {valueEncoding}) on the store m: absent, or the decoded value.
GetDecoded(m, k, enc) == IF k \in DOMAIN m THEN Some(decodeValue(enc, m[k])) ELSE None

\* A set that never deletes.
SetRequestAlwaysPut(cfg, v) == "put"

\* Lines 325-329: the request set() hands to the engine.
SetRequest(cfg, v) == IF cfg /\ IsAbsent(v) THEN "del" ELSE "put"

EncKeys == {"a"}

IdleEnc ==
    [op |-> "none", key |-> "", val |-> Undefined, enc |-> "utf8", tok |-> 0, pc |-> "idle",
     io |-> "none", rd |-> None, snap |-> <<>>, res |-> "none", clean |-> FALSE]

\* Lines 324-329: set(key, value, encoding) with a present value.  Buffer.from(number)
\* throws, so no number is set with the binary encoding.
EncIssueSet(c) ==
    \E k \in EncKeys, v \in PresentVals, e \in Encodings :
        /\ ~(v.t = "number" /\ e = "binary")
        /\ IdxIssue(c, [IdleEnc EXCEPT !.op = "set", !.key = k, !.val = v, !.enc = e,
                                       !.pc = SetRequest(config, v), !.io = "pending"])
        /\ UNCHANGED <<istore, itotalObservers, views, keyObservers, dsVal, cancelled,
                       config, nbatch, ocVars, regVars, itVars>>

\* Lines 324-329: set(key, undefined) or set(key, null).
EncIssueSetAbsent(c) ==
    \E k \in EncKeys, v \in AbsentVals :
        /\ IdxIssue(c, [IdleEnc EXCEPT !.op = "set", !.key = k, !.val = v,
                                       !.pc = SetRequest(config, v), !.io = "pending"])
        /\ UNCHANGED <<istore, itotalObservers, views, keyObservers, dsVal, cancelled,
                       config, nbatch, ocVars, regVars, itVars>>

\* Lines 314-318: get(key, encoding).
EncIssueGet(c) ==
    \E k \in EncKeys, e \in Encodings :
        /\ IdxIssue(c, [IdleEnc EXCEPT !.op = "get", !.key = k, !.enc = e, !.pc = "get",
                                       !.io = "pending"])
        /\ UNCHANGED <<istore, itotalObservers, views, keyObservers, dsVal, cancelled,
                       config, nbatch, ocVars, regVars, itVars>>

\* Lines 76-78: has(key).
EncIssueHas(c) ==
    \E k \in EncKeys :
        /\ IdxIssue(c, [IdleEnc EXCEPT !.op = "has", !.key = k, !.pc = "has",
                                       !.io = "pending"])
        /\ UNCHANGED <<istore, itotalObservers, views, keyObservers, dsVal, cancelled,
                       config, nbatch, ocVars, regVars, itVars>>

\* The engine serves a read; observeKey reads with the default encoding.
EncEngineRead(c) ==
    /\ icalls[c].pc \in {"get", "has", "hasGet", "okGet"}
    /\ icalls[c].io = "pending"
    /\ LET e == IF icalls[c].op = "get" THEN icalls[c].enc ELSE "utf8"
       IN icalls' = [icalls EXCEPT ![c].io = "ready",
                                   ![c].rd = GetDecoded(istore, icalls[c].key, e)]
    /\ lastStep' = [type |-> "none"]
    /\ UNCHANGED <<istore, itotalObservers, views, keyObservers, dsVal, cancelled,
                   config, nbatch, ocVars, regVars, itVars>>

\* Lines 215-217, 328: the put of a present value completes: the engine stores the
\* encoded bytes and emits 'put' with the value as set() passed it.
EncPutDone(c) ==
    /\ icalls[c].op = "set" /\ icalls[c].pc = "put"
    /\ ~IsAbsent(icalls[c].val)
    /\ istore' = MapSet(istore, icalls[c].key, encodeValue(icalls[c].enc, icalls[c].val))
    /\ LET obs == OnKeyChange(Observers, icalls[c].key, Some(icalls[c].val))
       IN views' = obs.views /\ dsVal' = obs.ds
    /\ icalls' = [icalls EXCEPT ![c].pc = "done", ![c].io = "none", ![c].res = "ok"]
    /\ lastStep' = [type |-> "put", key |-> icalls[c].key, val |-> Some(icalls[c].val),
                     call |-> c]
    /\ UNCHANGED <<itotalObservers, keyObservers, cancelled, config, nbatch, ocVars, regVars, itVars>>

\* Line 328: the engine refuses to put undefined or null; nothing is stored or emitted.
EncPutRejected(c) ==
    /\ icalls[c].op = "set" /\ icalls[c].pc = "put"
    /\ IsAbsent(icalls[c].val)
    /\ icalls' = [icalls EXCEPT ![c].pc = "done", ![c].io = "none", ![c].res = "err"]
    /\ lastStep' = [type |-> "none"]
    /\ UNCHANGED <<istore, itotalObservers, views, keyObservers, dsVal, cancelled,
                   config, nbatch, ocVars, regVars, itVars>>

\* Lines 314-318: get returns the decoded value, or fails when the key is absent or the
\* bytes do not decode.
EncGetReturned(c) ==
    /\ icalls[c].pc = "get" /\ icalls[c].io = "ready"
    /\ icalls' = [icalls EXCEPT ![c].pc = "done", ![c].io = "none",
                                ![c].res = IF icalls[c].rd = None THEN "notFound"
                                           ELSE IF icalls[c].rd[1] = ParseError THEN "err"
                                           ELSE "ok"]
    /\ lastStep' = [type |-> "none"]
    /\ UNCHANGED <<istore, itotalObservers, views, keyObservers, dsVal, cancelled,
                   config, nbatch, ocVars, regVars, itVars>>

\* Lines 76-87: has returns whether the read found the key.
EncHasReturned(c) ==
    /\ icalls[c].pc = "has" /\ icalls[c].io = "ready"
    /\ icalls' = [icalls EXCEPT ![c].pc = "done", ![c].io = "none",
                                ![c].res = IF icalls[c].rd = None THEN "false" ELSE "true"]
    /\ lastStep' = [type |-> "none"]
    /\ UNCHANGED <<istore, itotalObservers, views, keyObservers, dsVal, cancelled,
                   config, nbatch, ocVars, regVars, itVars>>

\* The index after createIndex, with either setting of autoDeleteOnSetUndefined
\* (lines 8-10, 21-24).
InitEncoded ==
    /\ istore = MapSet(<<>>, META_KEY, Stamp)
    /\ icalls = [c \in IdxCalls |-> IdleEnc]
    /\ itotalObservers = <<>>
    /\ views = [c \in IdxCalls |-> <<>>]
    /\ keyObservers = [k \in IdxKeys |-> <<>>]
    /\ dsVal = [c \in IdxCalls |-> None]
    /\ cancelled = [t \in Tokens |-> FALSE]
    /\ config \in BOOLEAN
    /\ nbatch = 0
    /\ lastStep = [type |-> "none"]
    /\ OcUnused
    /\ RegUnused
    /\ ItUnused

\* set, get, has, delete and observeKey of an index, with values of every type.
NextEncoded ==
    \/ \E c \in IdxCalls : EncIssueSet(c)
    \/ \E c \in IdxCalls : EncIssueSetAbsent(c)
    \/ \E c \in IdxCalls : EncIssueGet(c)
    \/ \E c \in IdxCalls : EncIssueHas(c)
    \/ \E c \in IdxCalls : IdxIssueDelete(c)
    \/ \E c \in IdxCalls : IdxIssueObserveKey(c)
    \/ \E c \in IdxCalls : EncEngineRead(c)
    \/ \E c \in IdxCalls : EncPutDone(c)
    \/ \E c \in IdxCalls : EncPutRejected(c)
    \/ \E c \in IdxCalls : IdxDelDone(c)
    \/ \E c \in IdxCalls : EncGetReturned(c)
    \/ \E c \in IdxCalls : EncHasReturned(c)
    \/ \E c \in IdxCalls : ObserveKeyAfterHas(c)
    \/ \E c \in IdxCalls : ObserveKeyAfterGet(c)
    \/ \E c \in IdxCalls : IdxRetire(c)

SpecEncoded == InitEncoded /\ [][NextEncoded]_vars

\* ================================================== the iterator
\* AurumDBIterator (src/src/iterator.ts) wraps the engine's cursor.  The cursor refuses
\* next() after end() and a second end() ("end() already called on iterator"), handing
\* the error to the callback; it is released by the first end().
ItCalls == 1..MaxItCalls

\* The keys a cursor can be opened on, in the engine's order.
ItSnapshots == {SubSeq(<<"a", "b", "c">>, 1, n) : n \in 0..MaxItKeys}

IdleIt == [op |-> "none", pc |-> "idle", out |-> "none", res |-> "none", val |-> None]

\* Line 9-11: next() calls iterator.next(cb); the cursor refuses when it was ended or a
\* next is still running.
ItIssueNext(c) ==
    /\ itcalls[c].pc = "idle"
    /\ \A d \in 1..(c - 1) : itcalls[d].pc # "idle"
    /\ IF cursor.ended \/ cursor.nexting
       THEN /\ itcalls' = [itcalls EXCEPT ![c] = [IdleIt EXCEPT !.op = "next", !.pc = "wait",
                                                                !.out = "refused"]]
            /\ UNCHANGED cursor
       ELSE /\ itcalls' = [itcalls EXCEPT ![c] = [IdleIt EXCEPT !.op = "next", !.pc = "wait",
                                                                !.out = "run"]]
            /\ cursor' = [cursor EXCEPT !.nexting = TRUE]
    /\ UNCHANGED <<current, ocVars, idxVars, regVars>>

\* Lines 30-33: end() clears this.current and calls iterator.end(cb).
ItIssueEnd(c) ==
    /\ itcalls[c].pc = "idle"
    /\ \A d \in 1..(c - 1) : itcalls[d].pc # "idle"
    /\ LET e == CursorEnd(cursor)
       IN /\ cursor' = e.cur
          /\ itcalls' = [itcalls EXCEPT ![c] = [IdleIt EXCEPT !.op = "end", !.pc = "wait",
                                                               !.out = e.out]]
    /\ current' = None
    /\ UNCHANGED <<ocVars, idxVars, regVars>>

\* Lines 12-14: the callback of iterator.next with an error (the cursor refused, or the
\* engine failed the read): this.end() is called and the promise rejected.
ItNextFailed(c) ==
    /\ itcalls[c].op = "next" /\ itcalls[c].pc = "wait"
    /\ LET cur == IF itcalls[c].out = "run" THEN [cursor EXCEPT !.nexting = FALSE]
                  ELSE cursor
       IN cursor' = CursorEnd(cur).cur
    /\ current' = None
    /\ itcalls' = [itcalls EXCEPT ![c].pc = "done", ![c].res = "err"]
    /\ UNCHANGED <<ocVars, idxVars, regVars>>

\* Lines 16-24: the callback of iterator.next without an error: with a key, this.current
\* is set and returned; without one (the end of the data) this.end() is called and
\* undefined returned.
ItNextReturned(c) ==
    /\ itcalls[c].op = "next" /\ itcalls[c].pc = "wait" /\ itcalls[c].out = "run"
    /\ IF cursor.keys = <<>>
       THEN /\ cursor' = CursorEnd([cursor EXCEPT !.nexting = FALSE]).cur
            /\ current' = None
            /\ itcalls' = [itcalls EXCEPT ![c].pc = "done", ![c].res = "ok"]
       ELSE /\ cursor' = [cursor EXCEPT !.nexting = FALSE, !.keys = Tail(@)]
            /\ current' = Some(Head(cursor.keys))
            /\ itcalls' = [itcalls EXCEPT ![c].pc = "done", ![c].res = "ok",
                                          ![c].val = Some(Head(cursor.keys))]
    /\ UNCHANGED <<ocVars, idxVars, regVars>>

\* Lines 33-39: the callback of iterator.end: an error rejects, otherwise resolve().
ItEndReturned(c) ==
    /\ itcalls[c].op = "end" /\ itcalls[c].pc = "wait"
    /\ itcalls' = [itcalls EXCEPT ![c].pc = "done",
                                  ![c].res = IF itcalls[c].out = "refused" THEN "err"
                                             ELSE "ok"]
    /\ UNCHANGED <<cursor, current, ocVars, idxVars, regVars>>

\* Line 5-7: new AurumDBIterator(iterator) on a cursor the engine just opened.
InitIterator ==
    /\ \E ks \in ItSnapshots : cursor = OpenCursor(ks)
    /\ itcalls = [c \in ItCalls |-> IdleIt]
    /\ current = None
    /\ OcUnused
    /\ IdxUnused
    /\ RegUnused

NextIterator ==
    \/ \E c \in ItCalls : ItIssueNext(c)
    \/ \E c \in ItCalls : ItIssueEnd(c)
    \/ \E c \in ItCalls : ItNextFailed(c)
    \/ \E c \in ItCalls : ItNextReturned(c)
    \/ \E c \in ItCalls : ItEndReturned(c)

SpecIterator == InitIterator /\ [][NextIterator]_vars

\* ================================================== the database
Names == {"t", "tindex"}
Kinds == {"index", "ordered", "linked"}
ProbeKeys == {"hello"}
RegCalls == 1..MaxRegCalls

\* Lines 28-30.
makeSubDbId(subDbName, id) == "!" \o subDbName \o "!" \o id

\* A partition name that leaves the kind out.
KindNameShared(name, kind) == name

\* Lines 65, 69, 73, 146, 161, 177: name + 'index', name + 'ordered', name + 'linked'.
KindName(name, kind) == name \o kind

\* The key of the metadata record of a collection, as has() and put() receive it.
MetaKeyOf(name, kind) == makeSubDbId(KindName(name, kind), META_KEY)

\* The database itself: a handle with the empty prefix.
Root == [p |-> "", d |-> 0]

\* A partition that forgets the prefix of the handle it was opened through.
SubPrefixFlat(p, name) == "!" \o name \o "!"

\* sub(this.db, name): the prefix of a partition opened through a handle of prefix p.
SubPrefix(p, name) == p \o "!" \o name \o "!"

\* The physical key of the key k handed to a handle of prefix p.
PhysKey(p, k) == p \o k

StartsWith(k, p) == Len(k) >= Len(p) /\ SubSeq(k, 1, Len(p)) = p

\* A clear that spares the metadata record.
ClearRangeData(m, p) ==
    [k \in {x \in DOMAIN m : ~StartsWith(x, p) \/ x = PhysKey(p, META_KEY)} |-> m[k]]

\* db.clear() of a handle of prefix p: every key of its range is removed.
ClearRange(m, p) == [k \in {x \in DOMAIN m : ~StartsWith(x, p)} |-> m[k]]

\* The outcome of db.get(key): the value, the engine's NotFound error, or another error.
NotFoundMessage == "Key not found in database"
EngineErrors == {"IO error"}
NoRead == [t |-> "none", v |-> 0, msg |-> ""]
ReadOf(m, k) ==
    IF k \in DOMAIN m THEN [t |-> "found", v |-> m[k], msg |-> ""]
    ELSE [t |-> "error", v |-> 0, msg |-> NotFoundMessage \o " [" \o k \o "]"]
ReadFailed(e) == [t |-> "error", v |-> 0, msg |-> e]

\* A has() that takes every error for a missing key.
HasResultAnyError(rd) == IF rd.t = "found" THEN "true" ELSE "false"

\* Lines 76-87: has(key): true when db.get resolved, false when it failed with a message
\* holding 'Key not found in database', the error itself otherwise.
HasResult(rd) ==
    IF rd.t = "found" THEN "true"
    ELSE IF StartsWith(rd.msg, NotFoundMessage) THEN "false"
    ELSE "err"

\* The metadata value a create puts: new Date().toJSON() for an index, 0 otherwise.
MetaValue(kind) == IF kind = "index" THEN Stamp ELSE 0

IdleReg ==
    [op |-> "none", h |-> Root, name |-> "", kind |-> "", key |-> "", val |-> 0,
     pc |-> "idle", io |-> "none", rd |-> NoRead, res |-> "none", err |-> ""]

\* The caller invokes a method of a handle.
RegIssue(c, rec) ==
    /\ rcalls[c].pc = "idle"
    /\ \A d \in 1..(c - 1) : rcalls[d].pc # "idle"
    /\ rcalls' = [rcalls EXCEPT ![c] = rec]
    /\ UNCHANGED <<phys, handles, ocVars, idxVars, itVars>>

\* A method that starts with has<Kind>(name): db.get of the metadata key is requested.
RegIssueKind(c, op) ==
    \E h \in handles, n \in Names, k \in Kinds :
        RegIssue(c, [IdleReg EXCEPT !.op = op, !.h = h, !.name = n, !.kind = k,
                                    !.key = PhysKey(h.p, MetaKeyOf(n, k)),
                                    !.pc = "hasGet", !.io = "pending"])

\* Lines 64-74: hasIndex / hasOrderedCollection / hasLinkedCollection.
IssueHasKind(c) == RegIssueKind(c, "hasKind")

\* Lines 142-143, 157-158, 173-174: create... starts with the existence check.
IssueCreate(c) == RegIssueKind(c, "create")

\* Lines 89-90, 105-106, 121-122: get... starts with the existence check.
IssueOpen(c) == RegIssueKind(c, "open")

\* Lines 51-62: delete... opens the collection first.
IssueDestroy(c) == RegIssueKind(c, "delete")

\* Lines 76-78: has(key).
IssueHas(c) ==
    \E h \in handles, k \in ProbeKeys :
        RegIssue(c, [IdleReg EXCEPT !.op = "has", !.h = h, !.name = k,
                                    !.key = PhysKey(h.p, k),
                                    !.pc = "hasGet", !.io = "pending"])

\* Lines 314-318: get(key) of an index.
IssueGet(c) ==
    \E h \in handles \ {Root}, k \in ProbeKeys :
        RegIssue(c, [IdleReg EXCEPT !.op = "get", !.h = h, !.name = k,
                                    !.key = PhysKey(h.p, k),
                                    !.pc = "keyGet", !.io = "pending"])

\* Lines 324-329: set(key, value) of an index with a present value.
IssuePut(c) ==
    \E h \in handles \ {Root}, k \in ProbeKeys :
        RegIssue(c, [IdleReg EXCEPT !.op = "set", !.h = h, !.name = k,
                                    !.key = PhysKey(h.p, k), !.val = 1,
                                    !.pc = "put", !.io = "pending"])

\* Lines 47-49: clear() of the database.
IssueClearAll(c) ==
    RegIssue(c, [IdleReg EXCEPT !.op = "clear", !.h = Root, !.key = Root.p,
                                !.pc = "clear", !.io = "pending"])

\* The engine serves a read.
RegEngineRead(c) ==
    /\ rcalls[c].pc \in {"hasGet", "keyGet"} /\ rcalls[c].io = "pending"
    /\ rcalls' = [rcalls EXCEPT ![c].io = "ready", ![c].rd = ReadOf(phys, rcalls[c].key)]
    /\ UNCHANGED <<phys, handles, ocVars, idxVars, itVars>>

\* The engine fails a read.
RegEngineReadFails(c) ==
    /\ rcalls[c].pc \in {"hasGet", "keyGet"} /\ rcalls[c].io = "pending"
    /\ \E e \in EngineErrors :
          rcalls' = [rcalls EXCEPT ![c].io = "ready", ![c].rd = ReadFailed(e)]
    /\ UNCHANGED <<phys, handles, ocVars, idxVars, itVars>>

RegDone(c, res, err) ==
    [rcalls EXCEPT ![c].pc = "done", ![c].io = "none", ![c].res = res, ![c].err = err]

\* The handle a create or get of an index returns (lines 91, 150); ordered and linked
\* collections are no AurumDB handles.
Opened(c) ==
    IF rcalls[c].kind = "index" /\ rcalls[c].h.d < MaxDepth
    THEN {[p |-> SubPrefix(rcalls[c].h.p, KindName(rcalls[c].name, rcalls[c].kind)),
           d |-> rcalls[c].h.d + 1]}
    ELSE {}

\* Lines 76-87: has returns.
HasReturned(c) ==
    /\ rcalls[c].op \in {"has", "hasKind"}
    /\ rcalls[c].pc = "hasGet" /\ rcalls[c].io = "ready"
    /\ rcalls' = RegDone(c, HasResult(rcalls[c].rd), rcalls[c].rd.msg)
    /\ UNCHANGED <<phys, handles, ocVars, idxVars, itVars>>

\* A create that never finds the collection present.
AlreadyExistsNever(rd) == FALSE

\* Lines 143, 158, 174: `if (await this.has...(name))`.
AlreadyExists(rd) == HasResult(rd) = "true"

\* Lines 143-149, 158-164, 174-180: create after the existence check: already exists,
\* or the put of the metadata record is requested.
CreateAfterHas(c) ==
    /\ rcalls[c].op = "create"
    /\ rcalls[c].pc = "hasGet" /\ rcalls[c].io = "ready"
    /\ IF HasResult(rcalls[c].rd) = "err"
       THEN rcalls' = RegDone(c, "err", rcalls[c].rd.msg)
       ELSE IF AlreadyExists(rcalls[c].rd)
       THEN rcalls' = RegDone(c, "exists", "")
       ELSE rcalls' = [rcalls EXCEPT ![c].pc = "put", ![c].io = "pending",
                                     ![c].val = MetaValue(rcalls[c].kind)]
    /\ UNCHANGED <<phys, handles, ocVars, idxVars, itVars>>

\* Lines 147-150, 162-165, 178-181 and 328: the put completes; a create returns the
\* handle of the partition.
RegPutDone(c) ==
    /\ rcalls[c].pc = "put"
    /\ phys' = MapSet(phys, rcalls[c].key, rcalls[c].val)
    /\ rcalls' = RegDone(c, "ok", "")
    /\ handles' = IF rcalls[c].op = "create" THEN handles \cup Opened(c) ELSE handles
    /\ UNCHANGED <<ocVars, idxVars, itVars>>

\* An open that finds every collection.
MissingNever(rd) == FALSE

\* Lines 90-94, 106-110, 122-126: the else branch of `if (await this.has...(name))`.
Missing(rd) == HasResult(rd) = "false"

\* Lines 89-95, 105-111, 121-127 and 51-62: get after the existence check: the handle,
\* or not found; a delete goes on to db.clear() of the partition.
OpenAfterHas(c) ==
    /\ rcalls[c].op \in {"open", "delete"}
    /\ rcalls[c].pc = "hasGet" /\ rcalls[c].io = "ready"
    /\ IF HasResult(rcalls[c].rd) = "err"
       THEN rcalls' = RegDone(c, "err", rcalls[c].rd.msg) /\ UNCHANGED handles
       ELSE IF Missing(rcalls[c].rd)
       THEN rcalls' = RegDone(c, "notFound", "") /\ UNCHANGED handles
       ELSE IF rcalls[c].op = "open"
       THEN rcalls' = RegDone(c, "ok", "") /\ handles' = handles \cup Opened(c)
       ELSE /\ rcalls' = [rcalls EXCEPT ![c].pc = "clear", ![c].io = "pending",
                             ![c].key = SubPrefix(rcalls[c].h.p,
                                                  KindName(rcalls[c].name, rcalls[c].kind))]
            /\ UNCHANGED handles
    /\ UNCHANGED <<phys, ocVars, idxVars, itVars>>

\* Lines 48, 53, 57, 61: db.clear() completes; val keeps how many keys it removed.
RegClearDone(c) ==
    /\ rcalls[c].pc = "clear"
    /\ phys' = ClearRange(phys, rcalls[c].key)
    /\ rcalls' = [RegDone(c, "ok", "") EXCEPT
                    ![c].val = Cardinality((DOMAIN phys) \ DOMAIN phys')]
    /\ UNCHANGED <<handles, ocVars, idxVars, itVars>>

\* Lines 314-318: get(key) returns the value or fails with the engine's error.
GetReturned(c) ==
    /\ rcalls[c].op = "get"
    /\ rcalls[c].pc = "keyGet" /\ rcalls[c].io = "ready"
    /\ IF rcalls[c].rd.t = "found"
       THEN rcalls' = [RegDone(c, "ok", "") EXCEPT ![c].val = rcalls[c].rd.v]
       ELSE rcalls' = RegDone(c, "err", rcalls[c].rd.msg)
    /\ UNCHANGED <<phys, handles, ocVars, idxVars, itVars>>

\* What earlier calls left: a database that holds nothing; an ordered collection 't' of
\* one element; an index 't', empty or with one key, whose handle the caller holds.
IndexT == [p |-> SubPrefix(Root.p, KindName("t", "index")), d |-> 1]
StoredBefore ==
    {[m |-> <<>>, hs |-> {Root}],
     [m |-> MapSet(MapSet(<<>>, "!tordered!!!meta!!", 1), "!tordered!0", 1), hs |-> {Root}],
     [m |-> MapSet(<<>>, "!tindex!!!meta!!", Stamp), hs |-> {Root, IndexT}],
     [m |-> MapSet(MapSet(<<>>, "!tindex!!!meta!!", Stamp), "!tindex!hello", 1),
      hs |-> {Root, IndexT}]}

InitDatabase ==
    /\ \E b \in StoredBefore : phys = b.m /\ handles = b.hs
    /\ rcalls = [c \in RegCalls |-> IdleReg]
    /\ OcUnused
    /\ IdxUnused
    /\ ItUnused

NextDatabase ==
    \/ \E c \in RegCalls : IssueHasKind(c)
    \/ \E c \in RegCalls : IssueHas(c)
    \/ \E c \in RegCalls : IssueCreate(c)
    \/ \E c \in RegCalls : IssueOpen(c)
    \/ \E c \in RegCalls : IssueDestroy(c)
    \/ \E c \in RegCalls : IssueGet(c)
    \/ \E c \in RegCalls : IssuePut(c)
    \/ \E c \in RegCalls : IssueClearAll(c)
    \/ \E c \in RegCalls : RegEngineRead(c)
    \/ \E c \in RegCalls : RegEngineReadFails(c)
    \/ \E c \in RegCalls : HasReturned(c)
    \/ \E c \in RegCalls : CreateAfterHas(c)
    \/ \E c \in RegCalls : OpenAfterHas(c)
    \/ \E c \in RegCalls : RegPutDone(c)
    \/ \E c \in RegCalls : RegClearDone(c)
    \/ \E c \in RegCalls : GetReturned(c)

SpecDatabase == InitDatabase /\ [][NextDatabase]_vars

\* --------------------------------------------------------- properties
\* toArray() run with nothing else in flight: the slots 0 .. length-1, or a failure
\* (None) when the length record or one of the slots is missing.
ToArrayNow(st) ==
    IF st.meta = None THEN None
    ELSE IF \E k \in 0..(st.meta[1] - 1) : k \notin DOMAIN st.slots THEN None
    ELSE Some([k \in 1..st.meta[1] |-> st.slots[k - 1]])

RECURSIVE ItemsOf(_)
\* The values pushed by the calls of the sequence s, in order.
ItemsOf(s) == IF s = <<>> THEN <<>> ELSE calls[Head(s)].items \o ItemsOf(Tail(s))

Reverse(s) == [k \in 1..Len(s) |-> s[Len(s) + 1 - k]]

AllDone == order # <<>> /\ \A k \in 1..Len(order) : calls[order[k]].pc = "done"
OnlyPushes == \A k \in 1..Len(order) : calls[order[k]].op = "push"

\* C2: once every call of a run of pushes (issued in any way, back-to-back included) has
\* completed, the length is the previous length plus the number of pushed values and
\* toArray() is the previous contents followed by the pushed values in issue order.
C2_PushesInIssueOrder ==
    (AllDone /\ OnlyPushes) =>
        /\ store.meta = Some(base.meta[1] + Len(ItemsOf(order)))
        /\ ToArrayNow(store) = Some(ToArrayNow(base)[1] \o ItemsOf(order))

\* Three pushes of 1, 2, 3 issued in one synchronous run on an empty collection.
C2_Witness ==
    /\ AllDone /\ OnlyPushes /\ Len(order) = 3
    /\ \A k \in 1..3 : calls[order[k]].burst /\ calls[order[k]].items = <<k>>
    /\ base = StoreOf(<<>>)
    /\ store = StoreOf(<<1, 2, 3>>)

\* The calls issued are n pushes followed by n pops, n >= 1.
PushesThenPops ==
    /\ Len(order) >= 2 /\ Len(order) % 2 = 0
    /\ \A k \in 1..Len(order) :
          calls[order[k]].op = (IF 2 * k <= Len(order) THEN "push" ELSE "pop")

\* C7: once n pushes followed by n pops have all completed, the pops have returned
\* the pushed values in reverse push order and the length is what it was.
C7_PushPopInverse ==
    (AllDone /\ PushesThenPops) =>
        LET n == Len(order) \div 2
            pushed == ItemsOf(SubSeq(order, 1, n))
        IN /\ \A j \in 1..n : calls[order[n + j]].ret = Some(Reverse(pushed)[j])
           /\ store.meta = base.meta

\* Two pushes and two pops, none awaited, on a collection that held one element.
C7_Witness ==
    /\ AllDone /\ PushesThenPops /\ Len(order) = 4
    /\ \A k \in 1..4 : calls[order[k]].burst
    /\ calls[order[1]].items # calls[order[2]].items
    /\ base.meta = Some(1)
    /\ store = base

Mutating(c) == calls[c].op \in {"set", "push", "pop", "clear"}

\* The call has requested a storage read or write.
Started(c) == calls[c].pc \notin {"idle", "awaitLock", "toArrLock", "lenLock"}

\* The call will request no further storage operation and none of its is pending.
Finished(c) == calls[c].pc \in {"done", "dead"}

\* C1: of two mutating calls on one collection, the one issued first has completed
\* all of its storage writes before the one issued later performs its first storage
\* read or write.
C1_MutatorsSerialized ==
    \A j, k \in 1..Len(order) :
        (j < k /\ Mutating(order[j]) /\ Mutating(order[k]) /\ Started(order[k]))
            => Finished(order[j])

\* C6: whenever no call is in flight the stored slot keys are exactly 0 .. length-1,
\* length being the value of the metadata record.
C6_SlotsMatchLength ==
    Quiescent => /\ store.meta # None
                 /\ DOMAIN store.slots = 0..(store.meta[1] - 1)

\* C8: a pop that read length 0 ends with an error delivered to its caller.
C8_PopOnEmptyFails ==
    \A c \in CallIds :
        (calls[c].op = "pop" /\ calls[c].hasLen /\ calls[c].len = 0 /\ Finished(c))
            => calls[c].res = "err"

\* A set that wrote did so at an index of the collection, 0 <= index < length.
ValidSet(d) ==
    (calls[d].op = "set" /\ calls[d].res = "ok")
        => (0 <= calls[d].index /\ calls[d].index < calls[d].len)

\* C5: once observeEntireCollection has returned and every push, pop and set (at a
\* valid index) issued while it ran has completed, the observed array equals toArray().
C5_ObservedArrayMatches ==
    \A c \in CallIds :
        (/\ calls[c].op = "observeEntireCollection" /\ calls[c].res = "ok"
         /\ \A d \in CallIds : calls[d].pc \in {"idle", "done"} /\ ValidSet(d))
            => Some(ads[c]) = ToArrayNow(store)

\* The call left an observer that its token still keeps registered.
LiveObserver(c, op) ==
    icalls[c].op = op /\ icalls[c].res = "ok" /\ ~cancelled[icalls[c].tok]

\* C3: once the bootstrap scan of observeEntireIndex and every set and delete applied
\* while it ran have completed, the view holds each stored key at its stored value and
\* no key that is not stored.
C3_ViewMatchesIndex ==
    \A c \in IdxCalls :
        (LiveObserver(c, "observeEntireIndex") /\ IdxQuiet)
            => \A k \in DataKeys : GetKey(views[c], k) = GetKey(istore, k)

\* C4: once observeKey(k) has returned and every set and delete of k in flight while
\* it ran has completed, the observer's value is the stored value of k (absent if k
\* is missing).
C4_KeyObserverMatches ==
    \A c \in IdxCalls :
        (LiveObserver(c, "observeKey") /\ IdxQuiet)
            => dsVal[c] = GetKey(istore, icalls[c].key)

\* The call registered an observer with a token that is cancelled by now.
CancelledObserver(c) ==
    /\ icalls[c].op \in {"observeKey", "observeEntireIndex"}
    /\ icalls[c].tok \in Tokens /\ cancelled[icalls[c].tok]

\* C9: the completion of a set, delete or clear (its change event) leaves the value of
\* every per-key observer and the contents of every whole-index observer of a cancelled
\* token as they were, and the cancellation itself changes no observer.
C9_CancelledObserversFrozen ==
    [][/\ (cancelled' # cancelled) => (views' = views /\ dsVal' = dsVal)
       /\ (lastStep'.type \in {"put", "del", "clear"}) =>
             \A c \in IdxCalls :
                 CancelledObserver(c) => (views'[c] = views[c] /\ dsVal'[c] = dsVal[c])]_vars

\* A set of k completed after the token of an observer of k was cancelled, and the
\* observer kept an earlier value that differs from the one now stored.
C9_Witness ==
    /\ lastStep.type = "put"
    /\ \E c \in IdxCalls :
          /\ CancelledObserver(c) /\ icalls[c].res = "ok"
          /\ icalls[c].op = "observeKey" /\ icalls[c].key = lastStep.key
          /\ dsVal[c] # None /\ dsVal[c] # lastStep.val

RECURSIVE LastValue(_, _, _)
\* What a batch leaves as the value of k, v if it does not touch k.
LastValue(ops, k, v) ==
    IF ops = <<>> THEN v
    ELSE LastValue(Tail(ops), k, IF Head(ops).key = k THEN Head(ops).value ELSE v)

Touches(ops, k) == \E n \in 1..Len(ops) : ops[n].key = k

\* C10: observeKey(k) run with nothing else in flight returns an observer holding the
\* stored value of k (absent when k is missing); right after a put, delete, batch or
\* clear event that touches k every registered observer of k holds that event's value
\* for k (absent for delete and clear; for a batch, that of its last operation on k).
C10_KeyObserverFollowsEvents ==
    /\ (lastStep.type = "observed" /\ icalls[lastStep.call].clean)
          => dsVal[lastStep.call] = GetKey(istore, icalls[lastStep.call].key)
    /\ \A k \in IdxKeys : \A n \in 1..Len(keyObservers[k]) :
          LET c == keyObservers[k][n]
          IN /\ (lastStep.type \in {"put", "del"} /\ lastStep.key = k)
                    => dsVal[c] = lastStep.val
             /\ (lastStep.type = "batch" /\ Touches(lastStep.ops, k))
                    => dsVal[c] = LastValue(lastStep.ops, k, None)
             /\ (lastStep.type = "clear") => dsVal[c] = None

\* An observer of a stored key, obtained with nothing else in flight, has just been
\* told of the delete of its key.
C10_Witness ==
    /\ lastStep.type = "del"
    /\ \E c \in IdxCalls :
          /\ LiveObserver(c, "observeKey") /\ icalls[c].clean
          /\ icalls[c].rd # None
          /\ icalls[c].key = lastStep.key
          /\ InSeq(keyObservers[lastStep.key], c)
          /\ dsVal[c] = None

\* The data entries of the index: everything but the metadata record.
DataOf(m) == [k \in (DOMAIN m) \ {META_KEY} |-> m[k]]

\* C11: a view returned by an observeEntireIndex that ran with nothing else in flight
\* holds exactly the non-metadata entries of the index, at the return and after every
\* set and delete completed since.
C11_ViewTracksIndex ==
    \A c \in IdxCalls :
        (LiveObserver(c, "observeEntireIndex") /\ icalls[c].clean)
            => views[c] = DataOf(istore)

\* A view whose scan read a stored key with nothing else in flight has just followed a
\* set and holds both keys at different values.
C11_Witness ==
    /\ lastStep.type = "put"
    /\ \E c \in IdxCalls :
          /\ LiveObserver(c, "observeEntireIndex") /\ icalls[c].clean
          /\ icalls[c].key \in DataKeys
          /\ DOMAIN views[c] = DataKeys
          /\ views[c]["a"] # views[c]["b"]

\* C12: no view of a whole-index observer holds a key that includes '!'.
C12_NoReservedKeyInView ==
    \A c \in IdxCalls :
        icalls[c].op = "observeEntireIndex"
            => \A k \in DOMAIN views[c] : ~IncludesDelimiter(k)

\* C13: when a clear() that ran with nothing else in flight has completed, the index
\* exists and no data key is stored.
C13_ClearKeepsIndexOnly ==
    \A c \in IdxCalls :
        (/\ icalls[c].op = "clear" /\ icalls[c].res = "ok" /\ icalls[c].clean
         /\ lastStep.type = "put" /\ lastStep.call = c)
            => /\ HasIndex
               /\ \A k \in DataKeys : GetKey(istore, k) = None

\* A clear() issued after a set had completed has itself just completed.
C13_Witness ==
    /\ lastStep.type = "put" /\ lastStep.key = META_KEY
    /\ icalls[lastStep.call].op = "clear" /\ icalls[lastStep.call].clean
    /\ icalls[lastStep.call].res = "ok"
    /\ \E d \in IdxCalls : icalls[d].op = "set" /\ icalls[d].res = "ok"
    /\ DOMAIN istore = {META_KEY}

\* clear() call c ran alone: every other call is idle or had completed.
ClearAlone(c) ==
    /\ calls[c].op = "clear"
    /\ \A d \in CallIds \ {c} : calls[d].pc \in {"idle", "done"}

\* C14: once the promise of clear() has resolved the collection exists with length 0,
\* holds no slot, and every whole-collection observer is empty.
C14_ClearResolvedEmpty ==
    \A c \in CallIds :
        (ClearAlone(c) /\ calls[c].res = "ok")
            => /\ store.meta = Some(0)
               /\ DOMAIN store.slots = {}
               /\ \A o \in CallIds : Registered(o) => ads[o] = <<>>

\* C15: no call is ever handed a read of the length record made while the partition
\* was emptied by clear() and the length record not yet rewritten.
C15_ClearNotObservedHalfway ==
    \A c \in CallIds :
        (calls[c].pc = "lenGet" /\ calls[c].io = "ready") => calls[c].rd # None

\* C17: a set whose index is not below the length it read is rejected and requests
\* no write.
C17_SetRejectsOutOfBounds ==
    \A c \in CallIds :
        (calls[c].op = "set" /\ calls[c].hasLen /\ calls[c].index >= calls[c].len)
            => (calls[c].pc = "done" /\ calls[c].res = "err")

\* The step completes the batch.write() of call c.
WroteBatch(c) == calls[c].pc = "batchWrite" /\ calls'[c].pc = "done"

\* The step puts every slot of the push c and its increased length, and nothing else.
PushApplied(c) ==
    LET len == calls[c].len
        items == calls[c].items
        new == len..(len + Len(items) - 1)
    IN /\ store'.meta = Some(len + Len(items))
       /\ DOMAIN store'.slots = (DOMAIN store.slots) \cup new
       /\ \A k \in new : store'.slots[k] = items[k - len + 1]
       /\ \A k \in (DOMAIN store.slots) \ new : store'.slots[k] = store.slots[k]

\* The step removes the last slot the pop c saw and decrements the length, and nothing
\* else.
PopApplied(c) ==
    LET len == calls[c].len
    IN /\ store'.meta = Some(len - 1)
       /\ DOMAIN store'.slots = (DOMAIN store.slots) \ {len - 1}
       /\ \A k \in DOMAIN store'.slots : store'.slots[k] = store.slots[k]

\* C16: a push of one or more values and a pop change the partition in one step each:
\* the step that completes the batch of a push puts all its slots together with the
\* increased length, the step that completes the batch of a pop removes the last slot
\* together with the decremented length, and no other step of a push or a pop changes
\* the partition.
C16_BatchesAtomic ==
    [][\A c \in CallIds :
         (calls[c].op \in {"push", "pop"} /\ calls'[c] # calls[c])
            => IF WroteBatch(c)
               THEN (IF calls[c].op = "push" THEN PushApplied(c) ELSE PopApplied(c))
               ELSE store' = store]_vars

C16_Witness ==
    \E c, d \in CallIds :
        /\ calls[c].op = "push" /\ calls[c].res = "ok" /\ Len(calls[c].items) = 2
        /\ calls[d].op = "pop" /\ calls[d].res = "ok"
        /\ store.meta = Some(calls[c].len + 2)
        /\ GetSlot(store, calls[c].len) = Some(calls[c].items[1])
        /\ GetSlot(store, calls[c].len + 1) = Some(calls[c].items[2])

\* The call left a key observer whose bootstrap no other call overlapped.
LiveKeyObserver(c, op) == calls[c].op = op /\ calls[c].res = "ok" /\ c \in alone

\* C19: once the push, pop and set (at a valid index) calls issued after observeAt(i)
\* returned have completed, the observer holds the stored value of slot i, and is absent
\* when the slot is.
C19_SlotObserverMatches ==
    \A c \in CallIds :
        (/\ LiveKeyObserver(c, "observeAt")
         /\ \A d \in CallIds : calls[d].pc \in {"idle", "done"} /\ ValidSet(d))
            => ocDs[c] = GetSlot(store, calls[c].index)

\* C20: an observer from observeLength() holds the value of the length record when it is
\* returned and in every later state, so after every completed push or pop it holds the
\* new length.
C20_LengthObserverMatches ==
    \A c \in CallIds : LiveKeyObserver(c, "observeLength") => ocDs[c] = store.meta

C20_Witness ==
    \E c, d, e \in CallIds :
        /\ LiveKeyObserver(c, "observeLength")
        /\ c < d /\ calls[d].op = "push" /\ calls[d].res = "ok"
        /\ c < e /\ calls[e].op = "pop" /\ calls[e].res = "ok"
        /\ ocDs[c] = store.meta
        /\ ocDs[c] # base.meta

\* The elements of the collection st at the indices a .. b-1, in order.
Range(st, a, b) == [k \in 1..(IF b > a THEN b - a ELSE 0) |-> st.slots[a + k - 1]]

\* C18: on a collection of length L, slice(a, b) with a < 0, b < 0, a > L or b > L
\* requests no slot and fails; with any other bounds it returns the stored elements at
\* the indices a .. b-1 in order, the empty sequence when b <= a.
C18_SliceReturnsRange ==
    \A c \in CallIds :
        calls[c].op = "slice" =>
            LET a == StartIndex(c)
                b == EndIndex(c)
                L == base.meta[1]
                bad == a < 0 \/ b < 0 \/ a > L \/ b > L
            IN /\ calls[c].pc = "sliceGet" => ~bad
               /\ calls[c].pc = "done" =>
                     IF bad THEN calls[c].res = "err" /\ calls[c].acc = <<>>
                     ELSE calls[c].res = "ok" /\ calls[c].acc = Range(base, a, b)

C18_Witness ==
    \E c, d \in CallIds :
        /\ calls[c].op = "slice" /\ calls[c].res = "ok"
        /\ Len(calls[c].acc) = 2 /\ calls[c].acc[1] # calls[c].acc[2]
        /\ calls[d].op = "slice" /\ calls[d].res = "err" /\ EndIndex(d) < 0

\* C21: a view from observeEntireCollection obtained with no call in flight equals
\* toArray() whenever the push, pop, set and clear calls made after it, each awaited
\* before the next, have completed.
C21_MirrorMatchesArray ==
    \A c \in CallIds :
        (LiveKeyObserver(c, "observeEntireCollection") /\ Quiescent)
            => Some(ads[c]) = ToArrayNow(store)

\* What has<Kind>(name) of a handle of prefix p returns on the store m.
ExistsNow(m, p, n, k) == PhysKey(p, MetaKeyOf(n, k)) \in DOMAIN m

\* The step settles the call c.
Settles(c) == rcalls[c].pc # "done" /\ rcalls'[c].pc = "done"

\* The read of call c was served and the engine reported key-not-found.
ReadNotFound(c) ==
    rcalls[c].rd.t = "error" /\ StartsWith(rcalls[c].rd.msg, NotFoundMessage)

\* The prefix of the partition the call c names.
PartitionOf(c) == rcalls[c].h.p \o "!" \o rcalls[c].name \o rcalls[c].kind \o "!"

\* C22: the step that completes the creation of a collection of one kind under a name
\* makes the existence check of that kind true and leaves the existence checks of the
\* other two kinds for the same name as they were, so false where none was created.
C22_CreateMakesOneKind ==
    [][\A c \in RegCalls :
         (rcalls[c].op = "create" /\ Settles(c) /\ rcalls'[c].res = "ok")
            => /\ ExistsNow(phys', rcalls[c].h.p, rcalls[c].name, rcalls[c].kind)
               /\ \A k \in Kinds \ {rcalls[c].kind} :
                     ExistsNow(phys', rcalls[c].h.p, rcalls[c].name, k)
                        = ExistsNow(phys, rcalls[c].h.p, rcalls[c].name, k)]_vars

C22_Witness ==
    \E c, d \in RegCalls :
        /\ rcalls[c].op = "create" /\ rcalls[c].res = "ok"
        /\ rcalls[d].op = "hasKind" /\ rcalls[d].res = "false"
        /\ rcalls[d].h = rcalls[c].h /\ rcalls[d].name = rcalls[c].name
        /\ rcalls[d].kind # rcalls[c].kind
        /\ ExistsNow(phys, rcalls[c].h.p, rcalls[c].name, rcalls[c].kind)
        /\ \A k \in Kinds \ {rcalls[c].kind} :
              ~ExistsNow(phys, rcalls[c].h.p, rcalls[c].name, k)

\* C23: the step that completes a delete of a collection leaves its existence check
\* false and no key of its partition, the metadata record included, in the store.
C23_DeleteEmptiesPartition ==
    [][\A c \in RegCalls :
         (rcalls[c].op = "delete" /\ Settles(c) /\ rcalls'[c].res = "ok")
            => /\ ~ExistsNow(phys', rcalls[c].h.p, rcalls[c].name, rcalls[c].kind)
               /\ \A x \in DOMAIN phys' : ~StartsWith(x, PartitionOf(c))]_vars

C23_Witness ==
    \E c \in RegCalls :
        /\ rcalls[c].op = "delete" /\ rcalls[c].res = "ok" /\ rcalls[c].val >= 2
        /\ \A x \in DOMAIN phys : ~StartsWith(x, PartitionOf(c))

\* C24: a create whose existence check found the metadata record settles with the
\* already-exists error in a step that leaves the store as it is; it makes no other step.
C24_CreateRejectsExisting ==
    [][\A c \in RegCalls :
         (rcalls[c].op = "create" /\ rcalls[c].rd.t = "found" /\ rcalls'[c] # rcalls[c])
            => /\ rcalls'[c].pc = "done" /\ rcalls'[c].res = "exists"
               /\ phys' = phys]_vars

C24_Witness ==
    \E c \in RegCalls :
        /\ rcalls[c].op = "create" /\ rcalls[c].res = "exists"
        /\ rcalls[c].name = "t" /\ rcalls[c].kind = "ordered"
        /\ GetKey(phys, "!tordered!!!meta!!") = Some(1)
        /\ GetKey(phys, "!tordered!0") = Some(1)

\* C25: a get or a delete whose existence check reported key-not-found settles with the
\* not-found error in a step that leaves the store and the handles as they are, and no
\* step of a get changes the store.
C25_OpenRejectsMissing ==
    [][\A c \in RegCalls :
         /\ (rcalls[c].op \in {"open", "delete"} /\ ReadNotFound(c)
                 /\ rcalls'[c] # rcalls[c])
               => /\ rcalls'[c].pc = "done" /\ rcalls'[c].res = "notFound"
                  /\ phys' = phys /\ handles' = handles
         /\ (rcalls[c].op = "open" /\ rcalls'[c] # rcalls[c]) => phys' = phys]_vars

C25_Witness ==
    \E c, d \in RegCalls :
        /\ rcalls[c].op = "open" /\ rcalls[c].res = "notFound"
        /\ rcalls[d].op = "delete" /\ rcalls[d].res = "notFound"

\* C26: the step that completes a create through an index handle makes that index's
\* existence check true and changes the check of no other handle, the database's
\* included; the step that completes a set in an index changes has() of no other
\* handle; the step that completes clear() of the database leaves no key at all.
C26_PartitionsNest ==
    [][\A c \in RegCalls :
         (Settles(c) /\ rcalls'[c].res = "ok") =>
            /\ (rcalls[c].op = "create" /\ rcalls[c].h # Root)
                  => /\ ExistsNow(phys', rcalls[c].h.p, rcalls[c].name, rcalls[c].kind)
                     /\ \A g \in handles \ {rcalls[c].h} :
                           ExistsNow(phys', g.p, rcalls[c].name, rcalls[c].kind)
                              = ExistsNow(phys, g.p, rcalls[c].name, rcalls[c].kind)
            /\ rcalls[c].op = "set"
                  => \A g \in handles \ {rcalls[c].h} :
                        (PhysKey(g.p, rcalls[c].name) \in DOMAIN phys')
                           = (PhysKey(g.p, rcalls[c].name) \in DOMAIN phys)
            /\ rcalls[c].op = "clear" => phys' = <<>>]_vars

C26_Witness ==
    \E c, d \in RegCalls :
        /\ rcalls[c].op = "create" /\ rcalls[c].res = "ok" /\ rcalls[c].h = IndexT
        /\ ExistsNow(phys, IndexT.p, rcalls[c].name, rcalls[c].kind)
        /\ ~ExistsNow(phys, Root.p, rcalls[c].name, rcalls[c].kind)
        /\ rcalls[d].op = "set" /\ rcalls[d].res = "ok" /\ rcalls[d].h.d = 2
        /\ PhysKey(rcalls[d].h.p, rcalls[d].name) \in DOMAIN phys
        /\ PhysKey(IndexT.p, rcalls[d].name) \notin DOMAIN phys

\* C29: an existence check returns true for a key the engine found and false when the
\* engine reported key-not-found, and fails with the engine's own error otherwise; get of
\* an absent key fails with the engine's key-not-found error.
C29_HasAbsorbsNotFoundOnly ==
    \A c \in RegCalls :
        rcalls[c].pc = "done" =>
            /\ rcalls[c].op \in {"has", "hasKind"} =>
                  IF rcalls[c].rd.t = "found" THEN rcalls[c].res = "true"
                  ELSE IF ReadNotFound(c) THEN rcalls[c].res = "false"
                  ELSE rcalls[c].res = "err" /\ rcalls[c].err = rcalls[c].rd.msg
            /\ (rcalls[c].op = "get" /\ rcalls[c].rd.t # "found") =>
                  rcalls[c].res = "err" /\ rcalls[c].err = rcalls[c].rd.msg

C29_Witness ==
    \E c, d \in RegCalls :
        /\ rcalls[c].op = "hasKind" /\ rcalls[c].res = "false"
        /\ rcalls[d].op = "has" /\ rcalls[d].res = "err" /\ rcalls[d].err \in EngineErrors

\* The step completes the set of call c.
SetSettles(c) ==
    icalls[c].op = "set" /\ icalls[c].pc \in {"put", "del"} /\ icalls'[c].pc = "done"

\* C27: a set of undefined or null with autoDeleteOnSetUndefined on completes by removing
\* the key and leaving every observer of the key absent, which is what a delete does; a
\* set of a present value, or any set with the option off, is a put request, and the put
\* of a present value stores it under the key and hands it to the key's observers.
C27_SetAbsentDeletes ==
    [][\A c \in IdxCalls :
         SetSettles(c) =>
            IF config /\ IsAbsent(icalls[c].val)
            THEN /\ icalls[c].pc = "del"
                 /\ istore' = MapDelete(istore, icalls[c].key)
                 /\ \A o \in IdxCalls :
                       InSeq(keyObservers[icalls[c].key], o) => dsVal'[o] = None
            ELSE /\ icalls[c].pc = "put"
                 /\ ~IsAbsent(icalls[c].val) =>
                       /\ istore' = MapSet(istore, icalls[c].key,
                                           encodeValue(icalls[c].enc, icalls[c].val))
                       /\ \A o \in IdxCalls :
                             InSeq(keyObservers[icalls[c].key], o)
                                => dsVal'[o] = Some(icalls[c].val)]_vars

C27_Witness ==
    /\ config
    /\ lastStep.type = "del"
    /\ icalls[lastStep.call].op = "set" /\ icalls[lastStep.call].res = "ok"
    /\ IsAbsent(icalls[lastStep.call].val)
    /\ lastStep.key \notin DOMAIN istore
    /\ \E o \in IdxCalls : InSeq(keyObservers[lastStep.key], o) /\ dsVal[o] = None

\* The step completes the put of the set of call c.
PutCompletes(c) ==
    icalls[c].op = "set" /\ icalls[c].pc = "put" /\ icalls'[c].res = "ok"

\* The step completes the delete(k) of call c.
DeleteCompletes(c) ==
    icalls[c].op = "delete" /\ icalls[c].pc = "del" /\ icalls'[c].res = "ok"

C30_EngineErrorDelivered ==
    \A c \in DOMAIN calls :
        (calls[c].op \in {"push", "pop"} /\ calls[c].io = "failed" /\ calls[c].pc = "dead")
           => calls[c].res = "err"

\* C31: every end() that has returned succeeded, and once an end() has returned the
\* engine cursor has been released exactly once.
C31_EndIdempotent ==
    \A c \in ItCalls :
        (itcalls[c].op = "end" /\ itcalls[c].pc = "done")
           => itcalls[c].res = "ok" /\ cursor.released = 1

\* The list without the observer o.
Without(list, o) == SelectSeq(list, LAMBDA x : x # o)

\* C32: a cleanup action removes its own observer and nothing else: every registry keeps
\* its other observers in their order and no observer's value changes; run again, or
\* after further events, it changes no registry at all.
C32_CleanupIdempotentLocal ==
    [][lastStep'.type = "cleanup" =>
         LET c == lastStep'.call
         IN /\ views' = views /\ dsVal' = dsVal /\ istore' = istore
            /\ itotalObservers' = Without(itotalObservers, c)
            /\ \A k \in IdxKeys : keyObservers'[k] = Without(keyObservers[k], c)
            /\ lastStep'.again =>
                  itotalObservers' = itotalObservers /\ keyObservers' = keyObservers]_vars

\* A cleanup ran again after a batch event, and another observer of the same key is
\* still registered and holds the event's value while the removed one does not.
C32_Witness ==
    /\ lastStep.type = "cleanup" /\ lastStep.again
    /\ nbatch = 1
    /\ \E d \in IdxCalls \ {lastStep.call} :
          /\ icalls[lastStep.call].op = "observeKey" /\ icalls[d].op = "observeKey"
          /\ icalls[d].key = icalls[lastStep.call].key
          /\ InSeq(keyObservers[icalls[d].key], d)
          /\ dsVal[d] = GetKey(istore, icalls[d].key)
          /\ dsVal[d] # dsVal[lastStep.call]

\* C33: every observeKey that has returned has returned an observer, whatever was
\* written to its key while it ran.
C33_ObserveKeyNeverFails ==
    \A c \in IdxCalls :
        (icalls[c].op = "observeKey" /\ icalls[c].pc = "done") => icalls[c].res = "ok"

\* C34: a scan of observeEntireIndex that has stopped, on whatever path, has released
\* its cursor exactly once and has settled the promise it returned.
C34_ScanReleasesCursor ==
    \A c \in IdxCalls :
        (icalls[c].op = "observeEntireIndex" /\ icalls[c].pc \in {"done", "dead"})
           => cursor[c].released = 1 /\ icalls[c].res \in {"ok", "err"}


\* The stored elements from slot first up to the current length, when all are there.
StoredFrom(st, first) ==
    IF st.meta = None THEN None
    ELSE IF \E k \in first..(st.meta[1] - 1) : k \notin DOMAIN st.slots THEN None
    ELSE Some([k \in 1..(IF st.meta[1] > first THEN st.meta[1] - first ELSE 0) |->
                 st.slots[first + k - 1]])

\* C35: once observeLastNElements(n) has returned on a collection of length L with no
\* call in flight, and the push, pop and set calls issued since have completed, the view
\* holds the stored elements from slot max(0, L - n) up to the current length.
C35_WindowMirrorsTail ==
    \A c \in CallIds :
        (LiveKeyObserver(c, "observeLastNElements") /\ Quiescent)
            => Some(ads[c]) = StoredFrom(store, WindowStart(calls[c].len, calls[c].index))


\* C36: under fair scheduling every push, pop and set call that was issued eventually
\* returns or fails, also after an earlier push or pop failed.
C36_EveryCallSettles ==
    \A c \in OCCalls : (calls[c].pc = "awaitLock") ~> (calls[c].pc = "done")



RECURSIVE LenAfterCalls(_, _)
\* The length of a collection of length n after the first k calls issued, each push and
\* pop applied in the order of issue.
LenAfterCalls(n, k) ==
    IF k = 0 THEN n
    ELSE LET m == LenAfterCalls(n, k - 1)
         IN IF calls[k].op = "push" THEN m + Len(calls[k].items)
            ELSE IF calls[k].op = "pop" /\ m > 0 THEN m - 1
            ELSE m

\* C37: a length() that returned gives the length after every push and pop issued
\* before it (or after later ones as well), never a length from before one of them.
C37_ReadSeesEarlierWrites ==
    \A c \in CallIds :
        (calls[c].op = "length" /\ calls[c].res = "ok")
            => \E k \in (c - 1)..Len(order) :
                   calls[c].ret = Some(LenAfterCalls(base.meta[1], k))



\* The storage write of the push, pop or set call d failed.
WriteFailed(d) == calls[d].io = "failed" /\ calls[d].pc \in {"dead", "done"}

\* C38: after the storage write of a push, pop or set failed, with no other call in
\* flight, every whole-collection observer holds the stored array, as before the call.
C38_FailedWriteKeepsObservers ==
    \A c, d \in CallIds :
        (/\ LiveKeyObserver(c, "observeEntireCollection")
         /\ WriteFailed(d)
         /\ \A e \in CallIds \ {d} : calls[e].pc \in {"idle", "done"})
            => Some(ads[c]) = ToArrayNow(store)



\* C39: an existence check of an index that was created and not deleted returns true,
\* also while clear() of the index is in progress.
C39_ExistsDuringClear ==
    \A c \in IdxCalls :
        (icalls[c].op = "hasIndex" /\ icalls[c].pc = "done") => icalls[c].res = "true"



\* C40: of two create calls for the same name and kind that run at the same time, at
\* most one returns a collection: no create returns a collection in a step where the
\* metadata record is already there, written by another create that returned one after
\* this one had passed its existence check.
C40_OneCreateWins ==
    [][\A d \in RegCalls :
         (/\ rcalls[d].op = "create" /\ rcalls[d].pc = "put"
          /\ rcalls'[d].pc = "done" /\ rcalls'[d].res = "ok")
            => ~(/\ rcalls[d].key \in DOMAIN phys
                 /\ \E c \in RegCalls \ {d} :
                        /\ rcalls[c].op = "create" /\ rcalls[c].res = "ok"
                        /\ rcalls[c].key = rcalls[d].key)]_vars


====
